---------------------------- MODULE Spec2Model ----------------------------
(***************************************************************************)
(* A model of TinyWebServer-CPP17: the sorted timer list                   *)
(* (timer/lst_timer.cpp), the HTTP connection (http/http_conn.cpp), the    *)
(* worker pool (threadpool/threadpool.h) and the event loop                *)
(* (webserver.cpp).                                                        *)
(*                                                                         *)
(* The module holds several specifications over one set of variables:      *)
(*   SpecTimer  the timer list driven by arbitrary callers                 *)
(*   SpecConn   one connection slot: recv, process(), writev               *)
(*   Spec       the event loop, the worker threads and the timers of       *)
(*              several connections                                        *)
(*   FairSpec   Spec with its threads scheduled                            *)
(*   SpecAccept the listener at and below the descriptor cap               *)
(*   SpecStop   the server from start to shutdown, FairStop with its       *)
(*              threads scheduled                                          *)
(*   SpecDb     Spec with the connection pool's destruction                *)
(*   SpecEvent  EventLoop with the events as epoll_wait reports them       *)
(*   SpecLine   ParseLine on lines that arrive in pieces                   *)
(*   FairAlarm  FairStop with the alarm clock running out                  *)
(*   FairJoin   SpecStop with the steps of Run's wait, threads scheduled   *)
(*   SpecPool   the worker pool with several workers                       *)
(*   SpecSql    the database connection pool                               *)
(*              (CGImysql/sql_connection_pool.cpp)                         *)
(*   SpecReg    workers in the registration branch of DoRequest            *)
(* Each specification leaves the variables of the other parts unchanged.   *)
(***************************************************************************)
EXTENDS Integers, Sequences, FiniteSets, TLC

(***************************************************************************)
(* Bounds of the model.                                                    *)
(***************************************************************************)
\* Timer nodes that can be allocated in one run (new Timer).
MaxTimers == 3
\* Largest value of the monotonic clock.
MaxNow == 4
\* Largest expiry a caller of the bare timer list hands in.
MaxExpire == 5
\* A short gather-write delivers at most this many bytes (or else all).
MaxShortWrite == 1
\* The client's request reaches recv in at most this many pieces.
MaxSegments == 2
\* Longest text of a line in front of its CRLF (SpecLine).
MaxLineLen == 2
\* Short gather-writes one connection meets.
MaxShortWrites == 2
\* Descriptors the kernel hands to accept: 1..MaxConn.
MaxConn == 2
\* Worker threads of the pool (thread_number).
ThreadNumber == 1
\* Capacity of the pool's queue (max_requests).
MaxRequests == 2
\* Connections waiting in the listen backlog when the listener is ready.
MaxBacklog == 2
\* Sockets refused with the busy message in one run.
MaxRefused == 2
\* SIGALRM deliveries in one run.
MaxAlarms == 3
\* Signal bytes the pipe holds before HandleSignal reads it.
MaxPipe == 2
\* max_conn of ConnectionPool::Init.
MaxSqlConn == 2
\* Threads that call the connection pool.
MaxCallers == 3
\* Workers that run a registration at the same time.
MaxRegistrants == 2
\* Threads of the pool where the claim is about several workers (SpecPool).
PoolThreads == 2

VARIABLES
    \* ---- timer list (SortedTimerList) and the heap of Timer nodes ----
    timer_list_,    \* [head_, tail_]: ids of Timer nodes, 0 is nullptr
    heap,           \* Timer id -> [expire_time_, user_data_, prev_, next_, alive]
    now,            \* steady_clock::now()
    cb_log,         \* callbacks invoked so far: sequence of [timer, user_data]
    allocated,      \* number of Timer nodes allocated so far (new Timer)
    \* ---- one connection slot and its socket (SpecConn) ----
    conn,               \* the HttpConnection of the slot
    conn_trigger_mode_, \* WebServer::conn_trigger_mode_: 0 = LT, 1 = ET
    users,              \* the users cache: name -> password
    db,                 \* rows of the table user: set of <<name, passwd>>
    m_user_count,       \* HttpConnection::m_user_count
    sock_open,          \* the slot's descriptor is open in the kernel
    epoll_ev,           \* its epoll registration: "none", "IN", "OUT", or
                        \* "off" (registered, disabled by EPOLLONESHOT)
    stream,             \* bytes of the request the client has yet to deliver
    rx,                 \* bytes recv() has handed to this connection
    out,                \* bytes writev() has delivered to the client
    cpc,                \* where the slot's handling stands: "idle",
                        \* "process" (queued for process()), "writev"
    req,                \* the request the client of this connection sends
    last,               \* outcome of the latest process(): the HttpCode
                        \* ret, the last line_status of ProcessRead, what
                        \* ProcessWrite returned, and in parsed, as a
                        \* one-element sequence, the fields of the request
                        \* once ProcessRead has found it complete
    accepts,            \* connections accepted so far
    short_writes,       \* short gather-writes the connection has met
    segments,           \* recv calls that have handed the connection data
    \* ---- the server: event loop, worker pool, descriptors (Spec) ----
    actor_model_,   \* WebServer::actor_model_: 0 = Proactor, 1 = Reactor
    kernel,         \* fd -> [open, ev]: the descriptor is open, and its
                    \* epoll registration as in epoll_ev
    users_,         \* fd -> the members of users_[fd] the threads share:
                    \* [sockfd_, m_state, improv, timer_flag]
    users_timer_,   \* fd -> ClientData [sockfd, timer]
    work_queue_,    \* ThreadPool::work_queue_: sequence of fds
    worker,         \* worker thread -> [pc, fd]: pc is "idle", "io"
                    \* (before read_once/write), "process", or "flag"
                    \* (improv set, timer_flag not yet)
    loop,           \* the event-loop thread: [pc, fd, timer], pc "wait"
                    \* (in epoll_wait) or "spin" (in the while (true) of
                    \* HandleRead/HandleWrite on fd)
    timeout,        \* the flag timeout of EventLoop
    loop_touch,     \* fds whose users_[fd] or socket the loop thread used
                    \* in the step just taken
    \* ---- the listener, the signal pipe and the pool's shutdown ----
    listen_trigger_mode_,   \* WebServer::listen_trigger_mode_: 0 = LT, 1 = ET
    refused,        \* sockets ShowError answered: sequence of
                    \* [sockfd, sent, open]
    sig_pipe,       \* bytes sent to pipe_fd_[1] and not yet received
    stop_server,    \* the flag stop_server of EventLoop
    run,            \* EventLoop: "wait" (at the while test, before
                    \* epoll_wait), "batch" (in the for loop over the
                    \* events), "done" (returned)
    stop_,          \* ThreadPool::stop_
    is_destroyed_,  \* ConnectionPool::is_destroyed_
    event,          \* events_[i] of the for loop's iteration (SpecEvent):
                    \* [fd, events], with the expiry the descriptor's
                    \* timer had when the event was taken
    alarm_,         \* the process's alarm clock: seconds until the kernel
                    \* raises SIGALRM, 0 when no alarm is pending
    \* ---- the database connection pool (SpecSql) ----
    conn_list_,         \* ConnectionPool::conn_list_: the free connections
    free_conn_count_,   \* ConnectionPool::free_conn_count_
    cur_conn_count_,    \* ConnectionPool::cur_conn_count_
    mutex_,             \* ConnectionPool::mutex_: the thread that holds it,
                        \* 0 when it is free
    caller,             \* thread -> [pc, conn, ret]: where it stands in
                        \* GetConnection / ReleaseConnection ("out" when in
                        \* neither), the connection it holds (0: none) and
                        \* what its latest GetConnection returned
    destroyer,          \* the thread in DestroyPool: "idle", "lock",
                        \* "notify", "done"
    \* ---- workers in the registration branch of DoRequest (SpecReg) ----
    users_mutex,        \* users_mutex: the thread that holds it, 0 if free
    reg                 \* thread -> [pc, name, password, query, url]: pc
                        \* is "idle", "find" (before users.find), "lock"
                        \* (before the lock_guard), "query" (under it),
                        \* "done"; query tells that mysql_query was called

timerVars == <<timer_list_, heap, now, cb_log, allocated>>

slotVars == <<conn, conn_trigger_mode_, users, db, sock_open, epoll_ev,
              stream, rx, out, cpc, req, last, accepts, short_writes,
              segments>>

connVars == <<slotVars, m_user_count>>

srvVars == <<actor_model_, kernel, users_, users_timer_, work_queue_, worker,
             loop, timeout, loop_touch>>

sqlVars == <<conn_list_, free_conn_count_, cur_conn_count_, mutex_, caller,
             destroyer>>

\* What the event loop and the workers only read, and the connection pool,
\* which the server's model takes as GetConnection's result only.
regVars == <<users_mutex, reg>>

cfgVars == <<listen_trigger_mode_, is_destroyed_, sqlVars, regVars>>

runVars == <<cfgVars, refused, sig_pipe, stop_server, run, stop_, alarm_>>

ctlVars == <<runVars, event>>

vars == <<timerVars, connVars, srvVars, ctlVars>>

(***************************************************************************)
(* SortedTimerList (timer/lst_timer.cpp).  A list value H is the record    *)
(* [head_, tail_, mem]: the two members of the class and the Timer nodes   *)
(* they point into.  Pointers are node ids, 0 is nullptr.                  *)
(***************************************************************************)
TimerIds == 1..MaxTimers

NullTimer == 0

\* Timer::Timer(): links and user data null, no callback target yet.
NewTimerNode(expire, ud) ==
    [expire_time_ |-> expire, user_data_ |-> ud, prev_ |-> NullTimer,
     next_ |-> NullTimer, alive |-> TRUE]

\* Storage that holds no Timer object (never allocated, or deleted).
FreeNode ==
    [expire_time_ |-> 0, user_data_ |-> 0, prev_ |-> NullTimer,
     next_ |-> NullTimer, alive |-> FALSE]

TheList == [head_ |-> timer_list_.head_, tail_ |-> timer_list_.tail_, mem |-> heap]

\* The private overload AddTimer(Timer* timer, Timer* list_head): the loop
\* over current = prev->next_, inserting before the first node that expires
\* strictly later, or at the tail.
RECURSIVE AddTimerScan(_, _, _, _)
AddTimerScan(H, timer, prev, current) ==
    IF current = NullTimer
    THEN [H EXCEPT !.mem[prev].next_ = timer,
                   !.mem[timer].prev_ = prev,
                   !.mem[timer].next_ = NullTimer,
                   !.tail_ = timer]
    ELSE IF H.mem[timer].expire_time_ < H.mem[current].expire_time_
         THEN [H EXCEPT !.mem[prev].next_ = timer,
                        !.mem[timer].next_ = current,
                        !.mem[current].prev_ = timer,
                        !.mem[timer].prev_ = prev]
         ELSE AddTimerScan(H, timer, current, H.mem[current].next_)

\* A faulty scan: inserts right behind list_head without comparing expiries.
AddTimerFromNoCompare(H, timer, list_head) ==
    LET current == H.mem[list_head].next_
    IN  IF current = NullTimer
        THEN [H EXCEPT !.mem[list_head].next_ = timer,
                       !.mem[timer].prev_ = list_head,
                       !.mem[timer].next_ = NullTimer,
                       !.tail_ = timer]
        ELSE [H EXCEPT !.mem[list_head].next_ = timer,
                       !.mem[timer].next_ = current,
                       !.mem[current].prev_ = timer,
                       !.mem[timer].prev_ = list_head]

AddTimerFrom(H, timer, list_head) ==
    AddTimerScan(H, timer, list_head, H.mem[list_head].next_)

\* SortedTimerList::AddTimer(Timer* timer)
ListAddTimer(H, timer) ==
    IF timer = NullTimer THEN H
    ELSE IF H.head_ = NullTimer
    THEN [H EXCEPT !.head_ = timer, !.tail_ = timer]
    ELSE IF H.mem[timer].expire_time_ < H.mem[H.head_].expire_time_
    THEN [H EXCEPT !.mem[timer].next_ = H.head_,
                   !.mem[H.head_].prev_ = timer,
                   !.head_ = timer]
    ELSE AddTimerFrom(H, timer, H.head_)

\* SortedTimerList::AdjustTimer(Timer* timer)
ListAdjustTimer(H, timer) ==
    IF timer = NullTimer THEN H
    ELSE LET next_timer == H.mem[timer].next_
         IN  IF \/ next_timer = NullTimer
                \/ H.mem[timer].expire_time_ < H.mem[next_timer].expire_time_
             THEN H
             ELSE IF timer = H.head_
             THEN LET new_head == H.mem[H.head_].next_
                      H1 == [H EXCEPT !.head_ = new_head,
                                      !.mem[new_head].prev_ = NullTimer,
                                      !.mem[timer].next_ = NullTimer]
                  IN  AddTimerFrom(H1, timer, H1.head_)
             ELSE LET p == H.mem[timer].prev_
                      n == H.mem[timer].next_
                      H1 == [H EXCEPT !.mem[p].next_ = n,
                                      !.mem[n].prev_ = p]
                  IN  AddTimerFrom(H1, timer, n)

\* SortedTimerList::DeleteTimer(Timer* timer); delete leaves the storage dead.
ListDeleteTimer(H, timer) ==
    IF timer = NullTimer THEN H
    ELSE IF timer = H.head_ /\ timer = H.tail_
    THEN [H EXCEPT !.mem[timer] = FreeNode,
                   !.head_ = NullTimer, !.tail_ = NullTimer]
    ELSE IF timer = H.head_
    THEN LET new_head == H.mem[H.head_].next_
         IN  [H EXCEPT !.head_ = new_head,
                       !.mem[new_head].prev_ = NullTimer,
                       !.mem[timer] = FreeNode]
    ELSE IF timer = H.tail_
    THEN LET new_tail == H.mem[H.tail_].prev_
         IN  [H EXCEPT !.tail_ = new_tail,
                       !.mem[new_tail].next_ = NullTimer,
                       !.mem[timer] = FreeNode]
    ELSE LET p == H.mem[timer].prev_
             n == H.mem[timer].next_
         IN  [H EXCEPT !.mem[p].next_ = n,
                       !.mem[n].prev_ = p,
                       !.mem[timer] = FreeNode]

\* SortedTimerList::Tick(): the nodes the while loop visits before it breaks,
\* in order (each has its callback invoked and is then deleted).
RECURSIVE TickExpired(_, _, _)
TickExpired(H, current, t) ==
    IF current = NullTimer \/ t < H.mem[current].expire_time_
    THEN <<>>
    ELSE <<current>> \o TickExpired(H, H.mem[current].next_, t)

\* A faulty Tick: a node that expires at t is left in the list.
RECURSIVE TickLoopStrict(_, _, _)
TickLoopStrict(H, current, t) ==
    IF current = NullTimer \/ t <= H.mem[current].expire_time_
    THEN H
    ELSE LET new_head == H.mem[current].next_
             H1 == [H EXCEPT !.head_ = new_head]
             H2 == IF new_head # NullTimer
                   THEN [H1 EXCEPT !.mem[new_head].prev_ = NullTimer]
                   ELSE H1
             H3 == [H2 EXCEPT !.mem[current] = FreeNode]
         IN  TickLoopStrict(H3, H3.head_, t)

\* SortedTimerList::Tick(): the list after the loop.  tail_ is not touched.
RECURSIVE TickLoop(_, _, _)
TickLoop(H, current, t) ==
    IF current = NullTimer \/ t < H.mem[current].expire_time_
    THEN H
    ELSE LET new_head == H.mem[current].next_
             H1 == [H EXCEPT !.head_ = new_head]
             H2 == IF new_head # NullTimer
                   THEN [H1 EXCEPT !.mem[new_head].prev_ = NullTimer]
                   ELSE H1
             H3 == [H2 EXCEPT !.mem[current] = FreeNode]
         IN  TickLoop(H3, H3.head_, t)

ListTick(H, t) ==
    IF H.head_ = NullTimer THEN H ELSE TickLoop(H, H.head_, t)

\* The nodes reached from head_ by next_ links, head first.  The fuel stops
\* the walk on a list that is not a simple chain.
RECURSIVE Chain(_, _, _)
Chain(mem, current, fuel) ==
    IF current = NullTimer \/ fuel = 0
    THEN <<>>
    ELSE <<current>> \o Chain(mem, mem[current].next_, fuel - 1)

ListNodes == Chain(heap, timer_list_.head_, MaxTimers + 1)

InList(t) == \E i \in 1..Len(ListNodes) : ListNodes[i] = t

Occurrences(t) == Cardinality({i \in 1..Len(ListNodes) : ListNodes[i] = t})

(***************************************************************************)
(* Bytes and C strings.  A byte is a one-character string, NUL the empty   *)
(* string.  A buffer is a sequence of bytes addressed from 0 as in C; the  *)
(* sequence holds the buffer up to the last byte ever written, everything  *)
(* behind it is still the NUL that init()'s memset left there.             *)
(***************************************************************************)
NUL == ""

CR == "\r"

LF == "\n"

\* A null char* (url_, version_, the result of strpbrk or strchr).
NullPtr == -1

SpaceTab == {" ", "\t"}

UpperCase == <<"A", "B", "C", "D", "E", "F", "G", "H", "I", "J", "K", "L", "M",
               "N", "O", "P", "Q", "R", "S", "T", "U", "V", "W", "X", "Y", "Z">>

LowerCase == <<"a", "b", "c", "d", "e", "f", "g", "h", "i", "j", "k", "l", "m",
               "n", "o", "p", "q", "r", "s", "t", "u", "v", "w", "x", "y", "z">>

\* tolower()
ToLower(ch) ==
    IF \E i \in 1..26 : UpperCase[i] = ch
    THEN LowerCase[CHOOSE i \in 1..26 : UpperCase[i] = ch]
    ELSE ch

Digits == <<"0", "1", "2", "3", "4", "5", "6", "7", "8", "9">>

IsDigit(ch) == \E i \in 1..10 : Digits[i] = ch

DigitValue(ch) == (CHOOSE i \in 1..10 : Digits[i] = ch) - 1

\* buf[i]
Rd(buf, i) == IF i >= 0 /\ i < Len(buf) THEN buf[i + 1] ELSE NUL

\* buf[i] = ch
Wr(buf, i, ch) ==
    IF i < Len(buf)
    THEN [buf EXCEPT ![i + 1] = ch]
    ELSE buf \o [k \in 1..(i - Len(buf)) |-> NUL] \o <<ch>>

\* strlen(&buf[p])
RECURSIVE StrLenAt(_, _)
StrLenAt(buf, p) == IF Rd(buf, p) = NUL THEN 0 ELSE 1 + StrLenAt(buf, p + 1)

\* The C string at &buf[p], without its terminator.
CStr(buf, p) == [k \in 1..StrLenAt(buf, p) |-> Rd(buf, p + k - 1)]

\* memcpy(&buf[p], data, Len(data)), p >= 0
StoreBytes(buf, p, data) ==
    LET end == IF Len(buf) > p + Len(data) THEN Len(buf) ELSE p + Len(data)
    IN  [i \in 1..end |-> IF i > p /\ i <= p + Len(data)
                          THEN data[i - p] ELSE Rd(buf, i - 1)]

\* strcpy(&buf[p], s): the bytes of s and the terminating NUL.
StrCpy(buf, p, s) == StoreBytes(buf, p, s \o <<NUL>>)

\* strcat(&buf[p], s)
StrCat(buf, p, s) == StrCpy(buf, p + StrLenAt(buf, p), s)

\* strpbrk(&buf[p], set): the first byte of the string that is in set.
RECURSIVE StrPBrk(_, _, _)
StrPBrk(buf, p, set) ==
    IF Rd(buf, p) = NUL THEN NullPtr
    ELSE IF Rd(buf, p) \in set THEN p
    ELSE StrPBrk(buf, p + 1, set)

\* strspn(&buf[p], set): the length of the leading run of bytes of set.
RECURSIVE StrSpn(_, _, _)
StrSpn(buf, p, set) ==
    IF Rd(buf, p) # NUL /\ Rd(buf, p) \in set
    THEN 1 + StrSpn(buf, p + 1, set)
    ELSE 0

\* strchr(&buf[p], ch)
StrChr(buf, p, ch) == StrPBrk(buf, p, {ch})

\* strrchr(&buf[p], ch): the last occurrence, NullPtr if there is none.
StrRChr(buf, p, ch) ==
    LET hits == {q \in p..(p + StrLenAt(buf, p) - 1) : Rd(buf, q) = ch}
    IN  IF hits = {} THEN NullPtr
        ELSE CHOOSE q \in hits : \A r \in hits : r <= q

\* strcasecmp(a, b) == 0
StrCaseEq(a, b) ==
    /\ Len(a) = Len(b)
    /\ \A i \in 1..Len(a) : ToLower(a[i]) = ToLower(b[i])

\* strncasecmp(&buf[p], lit, Len(lit)) == 0, lit being a literal of that length
StrNCaseEq(buf, p, lit) ==
    \A i \in 1..Len(lit) : ToLower(Rd(buf, p + i - 1)) = ToLower(lit[i])

\* atol's digit loop: the value of the leading run of digits.
RECURSIVE AtolDigits(_, _, _)
AtolDigits(buf, p, acc) ==
    IF IsDigit(Rd(buf, p))
    THEN AtolDigits(buf, p + 1, acc * 10 + DigitValue(Rd(buf, p)))
    ELSE acc

\* size_t read_idx_, checked_idx_, content_length_: arithmetic is modulo
\* 2^64.  TLC's integers end at 2^31 - 1, so the model wraps at 2^30: every
\* value the buffers can hold is far below, and a wrapped value is far above
\* every buffer size, as with 2^64.
SizeModulus == 1073741824

ToSizeT(n) == n % SizeModulus

\* atol(&buf[p]): blanks, an optional sign, digits.
Atol(buf, p) ==
    LET q == p + StrSpn(buf, p, {" ", "\t", "\n", "\r"})
    IN  IF Rd(buf, q) = "-" THEN 0 - AtolDigits(buf, q + 1, 0)
        ELSE IF Rd(buf, q) = "+" THEN AtolDigits(buf, q + 1, 0)
        ELSE AtolDigits(buf, q, 0)

\* printf's %d for a non-negative int.
RECURSIVE DecStr(_)
DecStr(n) ==
    IF n < 10 THEN <<Digits[n + 1]>>
    ELSE DecStr(n \div 10) \o <<Digits[(n % 10) + 1]>>

\* The string literals of http_conn.cpp, byte for byte: the response titles
\* and forms under their names in the source, the others under their text.
Lit ==
    [GET |-> <<"G", "E", "T">>,
     POST |-> <<"P", "O", "S", "T">>,
     HTTP11 |-> <<"H", "T", "T", "P", "/", "1", ".", "1">>,
     http |-> <<"h", "t", "t", "p", ":", "/", "/">>,
     https |-> <<"h", "t", "t", "p", "s", ":", "/", "/">>,
     judge |-> <<"j", "u", "d", "g", "e", ".", "h", "t", "m", "l">>,
     Connection |-> <<"C", "o", "n", "n", "e", "c", "t", "i", "o", "n", ":">>,
     keepalive |-> <<"k", "e", "e", "p", "-", "a", "l", "i", "v", "e">>,
     ContentLength |-> <<"C", "o", "n", "t", "e", "n", "t", "-", "l", "e", "n",
         "g", "t", "h", ":">>,
     Host |-> <<"H", "o", "s", "t", ":">>,
     kOk200Title |-> <<"O", "K">>,
     kError400Title |-> <<"B", "a", "d", " ", "R", "e", "q", "u", "e", "s",
         "t">>,
     kError400Form |-> <<"Y", "o", "u", "r", " ", "r", "e", "q", "u", "e", "s",
         "t", " ", "h", "a", "s", " ", "b", "a", "d", " ", "s", "y", "n",
         "t", "a", "x", " ", "o", "r", " ", "i", "s", " ", "i", "n", "h",
         "e", "r", "e", "n", "t", "l", "y", " ", "i", "m", "p", "o", "s",
         "s", "i", "b", "l", "e", " ", "t", "o", " ", "s", "a", "t", "i",
         "s", "f", "y", ".", "\n">>,
     kError403Title |-> <<"F", "o", "r", "b", "i", "d", "d", "e", "n">>,
     kError403Form |-> <<"Y", "o", "u", " ", "d", "o", " ", "n", "o", "t", " ",
         "h", "a", "v", "e", " ", "p", "e", "r", "m", "i", "s", "s", "i",
         "o", "n", " ", "t", "o", " ", "g", "e", "t", " ", "f", "i", "l",
         "e", " ", "f", "r", "o", "m", " ", "t", "h", "i", "s", " ", "s",
         "e", "r", "v", "e", "r", ".", "\n">>,
     kError404Title |-> <<"N", "o", "t", " ", "F", "o", "u", "n", "d">>,
     kError404Form |-> <<"T", "h", "e", " ", "r", "e", "q", "u", "e", "s", "t",
         "e", "d", " ", "f", "i", "l", "e", " ", "w", "a", "s", " ", "n",
         "o", "t", " ", "f", "o", "u", "n", "d", " ", "o", "n", " ", "t",
         "h", "i", "s", " ", "s", "e", "r", "v", "e", "r", ".", "\n">>,
     kError500Title |-> <<"I", "n", "t", "e", "r", "n", "a", "l", " ", "E",
         "r", "r", "o", "r">>,
     kError500Form |-> <<"T", "h", "e", "r", "e", " ", "w", "a", "s", " ", "a",
         "n", " ", "u", "n", "u", "s", "u", "a", "l", " ", "p", "r", "o",
         "b", "l", "e", "m", " ", "s", "e", "r", "v", "i", "n", "g", " ",
         "t", "h", "e", " ", "r", "e", "q", "u", "e", "s", "t", " ", "f",
         "i", "l", "e", ".", "\n">>,
     OkString |-> <<"<", "h", "t", "m", "l", ">", "<", "b", "o", "d", "y", ">",
         "<", "/", "b", "o", "d", "y", ">", "<", "/", "h", "t", "m", "l",
         ">">>,
     HttpVersion |-> <<"H", "T", "T", "P", "/", "1", ".", "1">>,
     ContentLengthHdr |-> <<"C", "o", "n", "t", "e", "n", "t", "-", "L", "e",
         "n", "g", "t", "h", ":">>,
     ConnectionHdr |-> <<"C", "o", "n", "n", "e", "c", "t", "i", "o", "n",
         ":">>,
     close |-> <<"c", "l", "o", "s", "e">>,
     CRLF |-> <<"\r", "\n">>,
     register_html |-> <<"/", "r", "e", "g", "i", "s", "t", "e", "r", ".", "h",
         "t", "m", "l">>,
     log_html |-> <<"/", "l", "o", "g", ".", "h", "t", "m", "l">>,
     picture_html |-> <<"/", "p", "i", "c", "t", "u", "r", "e", ".", "h", "t",
         "m", "l">>,
     video_html |-> <<"/", "v", "i", "d", "e", "o", ".", "h", "t", "m", "l">>,
     fans_html |-> <<"/", "f", "a", "n", "s", ".", "h", "t", "m", "l">>,
     registerError_html |-> <<"/", "r", "e", "g", "i", "s", "t", "e", "r", "E",
         "r", "r", "o", "r", ".", "h", "t", "m", "l">>,
     welcome_html |-> <<"/", "w", "e", "l", "c", "o", "m", "e", ".", "h", "t",
         "m", "l">>,
     logError_html |-> <<"/", "l", "o", "g", "E", "r", "r", "o", "r", ".", "h",
         "t", "m", "l">>]

(***************************************************************************)
(* HttpConnection (http/http_conn.h, http/http_conn.cpp).  A connection is *)
(* a record of the class's members; char* members that point into          *)
(* read_buf_ are offsets into it, NullPtr when null.                       *)
(***************************************************************************)
kReadBufferSize == 2048

kWriteBufferSize == 1024

kFileNameLen == 200

\* The members as the default member initialisers leave them; the slot
\* table WebServer::users_ is built from such objects.
DefaultConnection ==
    [sockfd_ |-> -1, trigger_mode_ |-> 0,
     read_buf_ |-> <<>>, read_idx_ |-> 0, checked_idx_ |-> 0, start_line_ |-> 0,
     write_buf_ |-> <<>>, write_idx_ |-> 0,
     check_state_ |-> "kRequestLine", method_ |-> "kGet",
     real_file_ |-> <<>>, url_ |-> NullPtr, version_ |-> NullPtr,
     host_ |-> NullPtr, content_length_ |-> 0, linger_ |-> FALSE,
     file_address_ |-> "null", st_size |-> 0,
     iov_ |-> [base0 |-> 0, len0 |-> 0, base1 |-> 0, len1 |-> 0],
     iov_count_ |-> 0, cgi_ |-> 0, string_ |-> NullPtr,
     bytes_to_send_ |-> 0, bytes_have_send_ |-> 0,
     timer_flag |-> 0, improv |-> 0, m_state |-> 0, mysql |-> FALSE]

\* HttpConnection::init(): string_, file_address_, file_stat_, iov_ and
\* iov_count_ are not among the members it resets.
InitConnection(c) ==
    [c EXCEPT !.mysql = FALSE,
              !.bytes_to_send_ = 0, !.bytes_have_send_ = 0,
              !.check_state_ = "kRequestLine", !.linger_ = FALSE,
              !.method_ = "kGet", !.url_ = NullPtr, !.version_ = NullPtr,
              !.content_length_ = 0, !.host_ = NullPtr, !.start_line_ = 0,
              !.checked_idx_ = 0, !.read_idx_ = 0, !.write_idx_ = 0,
              !.cgi_ = 0, !.m_state = 0, !.timer_flag = 0, !.improv = 0,
              !.read_buf_ = <<>>, !.write_buf_ = <<>>, !.real_file_ = <<>>]

\* HttpConnection::init(sockfd, addr, root, trigger_mode, ...); the AddFd and
\* the m_user_count++ it makes are the caller action's.
InitConnectionFd(c, sockfd, trigger_mode) ==
    InitConnection([c EXCEPT !.sockfd_ = sockfd, !.trigger_mode_ = trigger_mode])

\* ParseLine that steps over a CR at the end of the data.
RECURSIVE ParseLineSkipsCR(_)
ParseLineSkipsCR(c) ==
    IF ~(c.checked_idx_ < c.read_idx_)
    THEN [c |-> c, status |-> "kOpen"]
    ELSE LET temp == Rd(c.read_buf_, c.checked_idx_)
         IN  IF temp = CR
             THEN IF c.checked_idx_ + 1 = c.read_idx_
                  THEN [c |-> [c EXCEPT !.checked_idx_ = @ + 1],
                        status |-> "kOpen"]
                  ELSE IF Rd(c.read_buf_, c.checked_idx_ + 1) = LF
                  THEN [c |-> [c EXCEPT
                                 !.read_buf_ = Wr(Wr(@, c.checked_idx_, NUL),
                                                  c.checked_idx_ + 1, NUL),
                                 !.checked_idx_ = @ + 2],
                        status |-> "kOk"]
                  ELSE [c |-> c, status |-> "kBad"]
             ELSE IF temp = LF
             THEN IF c.checked_idx_ > 1 /\ Rd(c.read_buf_, c.checked_idx_ - 1) = CR
                  THEN [c |-> [c EXCEPT
                                 !.read_buf_ = Wr(Wr(@, c.checked_idx_ - 1, NUL),
                                                  c.checked_idx_, NUL),
                                 !.checked_idx_ = @ + 1],
                        status |-> "kOk"]
                  ELSE [c |-> c, status |-> "kBad"]
             ELSE ParseLineSkipsCR([c EXCEPT !.checked_idx_ = @ + 1])

\* HttpConnection::ParseLine(): the line status and the connection after it.
RECURSIVE ParseLine(_)
ParseLine(c) ==
    IF ~(c.checked_idx_ < c.read_idx_)
    THEN [c |-> c, status |-> "kOpen"]
    ELSE LET temp == Rd(c.read_buf_, c.checked_idx_)
         IN  IF temp = CR
             THEN IF c.checked_idx_ + 1 = c.read_idx_
                  THEN [c |-> c, status |-> "kOpen"]
                  ELSE IF Rd(c.read_buf_, c.checked_idx_ + 1) = LF
                  THEN [c |-> [c EXCEPT
                                 !.read_buf_ = Wr(Wr(@, c.checked_idx_, NUL),
                                                  c.checked_idx_ + 1, NUL),
                                 !.checked_idx_ = @ + 2],
                        status |-> "kOk"]
                  ELSE [c |-> c, status |-> "kBad"]
             ELSE IF temp = LF
             THEN IF c.checked_idx_ > 1 /\ Rd(c.read_buf_, c.checked_idx_ - 1) = CR
                  THEN [c |-> [c EXCEPT
                                 !.read_buf_ = Wr(Wr(@, c.checked_idx_ - 1, NUL),
                                                  c.checked_idx_, NUL),
                                 !.checked_idx_ = @ + 1],
                        status |-> "kOk"]
                  ELSE [c |-> c, status |-> "kBad"]
             ELSE ParseLine([c EXCEPT !.checked_idx_ = @ + 1])

\* HttpConnection::ParseRequestLine(char* text), text an offset into read_buf_,
\* in the order of its statements.  The request set of the model holds no
\* absolute-URI target without a path, so strchr never hands a null url_ to
\* the strncasecmp on "https://".
\* ... if (!url_ || url_[0] != '/') return kBadRequest; strcat; check_state_
RequestLineFinish(c) ==
    IF c.url_ = NullPtr \/ Rd(c.read_buf_, c.url_) # "/"
    THEN [c |-> c, ret |-> "kBadRequest"]
    ELSE [c |-> [c EXCEPT !.read_buf_ = IF StrLenAt(@, c.url_) = 1
                                        THEN StrCat(@, c.url_, Lit.judge) ELSE @,
                          !.check_state_ = "kHeader"],
          ret |-> "kNoRequest"]

\* ... if (strncasecmp(url_, "https://", 8) == 0) { url_ += 8; strchr }
RequestLineHttps(c) ==
    RequestLineFinish(IF c.url_ # NullPtr /\ StrNCaseEq(c.read_buf_, c.url_, Lit.https)
                      THEN [c EXCEPT !.url_ = StrChr(c.read_buf_, @ + 8, "/")]
                      ELSE c)

\* ... the version test and if (strncasecmp(url_, "http://", 7) == 0) ...
RequestLineCheckVersion(c) ==
    IF ~StrCaseEq(CStr(c.read_buf_, c.version_), Lit.HTTP11)
    THEN [c |-> c, ret |-> "kBadRequest"]
    ELSE RequestLineHttps(IF StrNCaseEq(c.read_buf_, c.url_, Lit.http)
                          THEN [c EXCEPT !.url_ = StrChr(c.read_buf_, @ + 7, "/")]
                          ELSE c)

\* ... version_ = strpbrk(url_, " \t"); *version_++ = '\0'; version_ += strspn
RequestLineVersion(c) ==
    LET sp == StrPBrk(c.read_buf_, c.url_, SpaceTab)
    IN  IF sp = NullPtr
        THEN [c |-> [c EXCEPT !.version_ = NullPtr], ret |-> "kBadRequest"]
        ELSE RequestLineCheckVersion(
                 [c EXCEPT !.read_buf_ = Wr(@, sp, NUL),
                           !.version_ = (sp + 1) +
                               StrSpn(c.read_buf_, sp + 1, SpaceTab)])

\* ... the method test and url_ += strspn(url_, " \t")
RequestLineMethod(c, text) ==
    IF StrCaseEq(CStr(c.read_buf_, text), Lit.GET)
    THEN RequestLineVersion(
             [c EXCEPT !.method_ = "kGet",
                       !.url_ = @ + StrSpn(c.read_buf_, @, SpaceTab)])
    ELSE IF StrCaseEq(CStr(c.read_buf_, text), Lit.POST)
    THEN RequestLineVersion(
             [c EXCEPT !.method_ = "kPost", !.cgi_ = 1,
                       !.url_ = @ + StrSpn(c.read_buf_, @, SpaceTab)])
    ELSE [c |-> c, ret |-> "kBadRequest"]

ParseRequestLine(c, text) ==
    LET sp == StrPBrk(c.read_buf_, text, SpaceTab)
    IN  IF sp = NullPtr
        THEN [c |-> [c EXCEPT !.url_ = NullPtr], ret |-> "kBadRequest"]
        ELSE RequestLineMethod([c EXCEPT !.read_buf_ = Wr(@, sp, NUL),
                                         !.url_ = sp + 1], text)

\* ParseHeaders that enters kContent at every blank line.
ParseHeadersAlwaysContent(c, text) ==
    IF Rd(c.read_buf_, text) = NUL
    THEN [c |-> [c EXCEPT !.check_state_ = "kContent"], ret |-> "kNoRequest"]
    ELSE [c |-> c, ret |-> "kNoRequest"]

\* HttpConnection::ParseHeaders(char* text)
ParseHeaders(c, text) ==
    LET b == c.read_buf_
    IN  IF Rd(b, text) = NUL
        THEN IF c.content_length_ # 0
             THEN [c |-> [c EXCEPT !.check_state_ = "kContent"],
                   ret |-> "kNoRequest"]
             ELSE [c |-> c, ret |-> "kGetRequest"]
        ELSE IF StrNCaseEq(b, text, Lit.Connection)
        THEN LET v == (text + 11) + StrSpn(b, text + 11, SpaceTab)
             IN  [c |-> [c EXCEPT !.linger_ =
                            IF StrCaseEq(CStr(b, v), Lit.keepalive) THEN TRUE ELSE @],
                  ret |-> "kNoRequest"]
        ELSE IF StrNCaseEq(b, text, Lit.ContentLength)
        THEN LET v == (text + 15) + StrSpn(b, text + 15, SpaceTab)
             IN  [c |-> [c EXCEPT !.content_length_ = ToSizeT(Atol(b, v))],
                  ret |-> "kNoRequest"]
        ELSE IF StrNCaseEq(b, text, Lit.Host)
        THEN LET v == (text + 5) + StrSpn(b, text + 5, SpaceTab)
             IN  [c |-> [c EXCEPT !.host_ = v], ret |-> "kNoRequest"]
        ELSE [c |-> c, ret |-> "kNoRequest"]

\* HttpConnection::ParseContent(char* text)
ParseContent(c, text) ==
    IF c.read_idx_ >= ToSizeT(c.content_length_ + c.checked_idx_)
    THEN [c |-> [c EXCEPT !.read_buf_ = Wr(@, text + c.content_length_, NUL),
                          !.string_ = text],
          ret |-> "kGetRequest"]
    ELSE [c |-> c, ret |-> "kNoRequest"]

\* HttpConnection::ProcessRead(): the while loop, entered with the local
\* line_status.  ret "kGetRequest" stands for "return DoRequest()": the
\* request is complete and the caller runs DoRequest on the result.
RECURSIVE ProcessReadLoop(_, _)

\* case kRequestLine, behind ret = ParseRequestLine(text)
AfterRequestLine(r, line_status) ==
    IF r.ret = "kBadRequest"
    THEN [c |-> r.c, ret |-> "kBadRequest", line_status |-> line_status]
    ELSE ProcessReadLoop(r.c, line_status)

\* case kHeader, behind ret = ParseHeaders(text)
AfterHeaders(r, line_status) ==
    IF r.ret = "kBadRequest"
    THEN [c |-> r.c, ret |-> "kBadRequest", line_status |-> line_status]
    ELSE IF r.ret = "kGetRequest"
    THEN [c |-> r.c, ret |-> "kGetRequest", line_status |-> line_status]
    ELSE ProcessReadLoop(r.c, line_status)

\* case kContent, behind ret = ParseContent(text)
AfterContent(r, line_status) ==
    IF r.ret = "kGetRequest"
    THEN [c |-> r.c, ret |-> "kGetRequest", line_status |-> line_status]
    ELSE ProcessReadLoop(r.c, "kOpen")

\* The switch on check_state_, start_line_ already moved on.
ProcessReadSwitch(c, text, line_status) ==
    CASE c.check_state_ = "kRequestLine" ->
           AfterRequestLine(ParseRequestLine(c, text), line_status)
      [] c.check_state_ = "kHeader" ->
           AfterHeaders(ParseHeaders(c, text), line_status)
      [] c.check_state_ = "kContent" ->
           AfterContent(ParseContent(c, text), line_status)
      [] OTHER -> [c |-> c, ret |-> "kInternalError", line_status |-> line_status]

\* The loop body: text = GetLine(); start_line_ = checked_idx_; switch
ProcessReadBody(c, line_status) ==
    ProcessReadSwitch([c EXCEPT !.start_line_ = c.checked_idx_], c.start_line_,
                      line_status)

\* The second operand of the loop condition: (line_status = ParseLine()) == kOk
ProcessReadLine(pl) ==
    IF pl.status = "kOk"
    THEN ProcessReadBody(pl.c, "kOk")
    ELSE [c |-> pl.c, ret |-> "kNoRequest", line_status |-> pl.status]

ProcessReadLoop(c, line_status) ==
    IF c.check_state_ = "kContent" /\ line_status = "kOk"
    THEN ProcessReadBody(c, line_status)
    ELSE ProcessReadLine(ParseLine(c))

ProcessRead(c) == ProcessReadLoop(c, "kOk")

\* The server's document root (WebServer::root_dir_, handed to init as root).
DocRoot ==
    <<"/", "r", "o", "o", "t">>

\* strncpy(&buf[p], s, n) for a source string s: min(Len(s), n) bytes, then
\* NULs up to n bytes (the buffer behind its last written byte is NUL already).
StrNCpy(buf, p, s, n) ==
    IF n <= 0 THEN buf
    ELSE IF Len(s) >= n THEN StoreBytes(buf, p, SubSeq(s, 1, n))
    ELSE [i \in 1..(IF Len(buf) > p + Len(s) THEN Len(buf) ELSE p + Len(s)) |->
            IF i > p /\ i <= p + Len(s) THEN s[i - p]
            ELSE IF i > p + Len(s) /\ i <= p + n THEN NUL
            ELSE Rd(buf, i - 1)]

\* The outcomes of stat() on the resolved path that DoRequest tells apart:
\* no such file, not world-readable, a directory, a regular file of a size.
MaxFileSize == 1

StatResults ==
    {[kind |-> "missing", size |-> 0], [kind |-> "unreadable", size |-> 0],
     [kind |-> "dir", size |-> 0]} \cup
    {[kind |-> "file", size |-> n] : n \in 0..MaxFileSize}

\* The users cache std::map users: a function from names to passwords.
MapHas(m, name) == name \in DOMAIN m

MapInsert(m, name, pwd) ==
    IF name \in DOMAIN m THEN m
    ELSE [x \in DOMAIN m \cup {name} |-> IF x = name THEN pwd ELSE m[x]]

\* HttpConnection::DoRequest(), given the users cache, what stat() reports
\* and what mysql_query() returns for the INSERT (0 is success), in the
\* order of its statements.  Its result: the connection, the HttpCode, the
\* cache, and the row the INSERT names (<<>> when no query is made).
\* ... stat, the mode tests, open and mmap
DoRequestStat(c, cache, query, st) ==
    CASE st.kind = "missing" ->
           [c |-> c, ret |-> "kNoResource", cache |-> cache, query |-> query]
      [] st.kind = "unreadable" ->
           [c |-> [c EXCEPT !.st_size = st.size], ret |-> "kForbiddenRequest",
            cache |-> cache, query |-> query]
      [] st.kind = "dir" ->
           [c |-> [c EXCEPT !.st_size = st.size], ret |-> "kBadRequest",
            cache |-> cache, query |-> query]
      [] OTHER ->
           [c |-> [c EXCEPT !.st_size = st.size,
                            !.file_address_ = IF st.size = 0 THEN "MAP_FAILED"
                                              ELSE "mapped"],
            ret |-> "kFileRequest", cache |-> cache, query |-> query]

\* The page the digit behind the last '/' of the target selects.
FixedPage(d) ==
    CASE d = "0" -> Lit.register_html
      [] d = "1" -> Lit.log_html
      [] d = "5" -> Lit.picture_html
      [] d = "6" -> Lit.video_html
      [] d = "7" -> Lit.fans_html
      [] OTHER -> <<>>

\* ... the if / else if chain on *(p + 1) that completes real_file_
DoRequestFile(c, p, cache, query, st) ==
    LET page == FixedPage(Rd(c.read_buf_, p + 1))
    IN  DoRequestStat(
            [c EXCEPT !.real_file_ =
                IF page # <<>>
                THEN StrNCpy(@, Len(DocRoot), page, Len(page))
                ELSE StrNCpy(@, Len(DocRoot), CStr(c.read_buf_, c.url_),
                             kFileNameLen - Len(DocRoot) - 1)],
            cache, query, st)

\* strcpy(url_, page)
SetUrl(c, page) == [c EXCEPT !.read_buf_ = StrCpy(@, c.url_, page)]

\* ... the registration ('3') and login ('2') branches.  users.insert runs
\* whatever mysql_query returned.
DoRequestForm(c, p, name, password, cache, st, res) ==
    IF Rd(c.read_buf_, p + 1) = "3"
    THEN IF ~MapHas(cache, name)
         THEN DoRequestFile(SetUrl(c, IF res = 0 THEN Lit.log_html
                                      ELSE Lit.registerError_html),
                            p, MapInsert(cache, name, password),
                            <<name, password>>, st)
         ELSE DoRequestFile(SetUrl(c, Lit.registerError_html), p, cache, <<>>, st)
    ELSE IF MapHas(cache, name) /\ cache[name] = password
         THEN DoRequestFile(SetUrl(c, Lit.welcome_html), p, cache, <<>>, st)
         ELSE DoRequestFile(SetUrl(c, Lit.logError_html), p, cache, <<>>, st)

\* The form body as the two for loops read it: the name from string_[5] up
\* to '&', the password from 10 bytes behind the '&' up to the NUL.  Bodies
\* of the model's requests hold an '&', so the name loop ends inside them.
FormAmp(c) == StrChr(c.read_buf_, c.string_ + 5, "&")

FormName(c) ==
    [k \in 1..(FormAmp(c) - (c.string_ + 5)) |->
        Rd(c.read_buf_, c.string_ + 5 + k - 1)]

FormPassword(c) == CStr(c.read_buf_, FormAmp(c) + 10)

\* ... if (cgi_ == 1 && (*(p + 1) == '2' || *(p + 1) == '3'))
DoRequestCgi(c, p, cache, st, res) ==
    IF c.cgi_ = 1 /\ (Rd(c.read_buf_, p + 1) = "2" \/ Rd(c.read_buf_, p + 1) = "3")
    THEN DoRequestForm(
             [c EXCEPT !.real_file_ =
                 StrNCpy(@, Len(DocRoot), <<"/">> \o CStr(c.read_buf_, c.url_ + 2),
                         kFileNameLen - Len(DocRoot) - 1)],
             p, FormName(c), FormPassword(c), cache, st, res)
    ELSE DoRequestFile(c, p, cache, <<>>, st)

DoRequest(c, cache, st, res) ==
    DoRequestCgi([c EXCEPT !.real_file_ = StrCpy(@, 0, DocRoot)],
                 StrRChr(c.read_buf_, c.url_, "/"), cache, st, res)

\* A faulty Unmap: the mapping stays.
UnmapNothing(c) == c

\* HttpConnection::Unmap()
Unmap(c) ==
    IF c.file_address_ # "null" THEN [c EXCEPT !.file_address_ = "null"] ELSE c

\* HttpConnection::AddResponse with the formatted text s: vsnprintf stores
\* at most size - 1 bytes and a NUL, and the call fails, write_idx_ unmoved,
\* when the text does not fit.
AddResponse(c, s) ==
    LET size == kWriteBufferSize - 1 - c.write_idx_
    IN  IF c.write_idx_ >= kWriteBufferSize
        THEN [c |-> c, ok |-> FALSE]
        ELSE IF Len(s) >= size
        THEN [c |-> [c EXCEPT !.write_buf_ =
                        IF size = 0 THEN @
                        ELSE StrCpy(@, c.write_idx_, SubSeq(s, 1, size - 1))],
              ok |-> FALSE]
        ELSE [c |-> [c EXCEPT !.write_buf_ = StrCpy(@, c.write_idx_, s),
                              !.write_idx_ = @ + Len(s)],
              ok |-> TRUE]

\* AddStatusLine(status, title)
AddStatusLine(c, status, title) ==
    AddResponse(c, Lit.HttpVersion \o <<" ">> \o DecStr(status) \o <<" ">> \o
                   title \o Lit.CRLF)

AddContentLength(c, content_len) ==
    AddResponse(c, Lit.ContentLengthHdr \o DecStr(content_len) \o Lit.CRLF)

\* AddLinger that announces close whatever linger_ is.
AddLingerClose(c) ==
    AddResponse(c, Lit.ConnectionHdr \o Lit.close \o Lit.CRLF)

\* HttpConnection::AddLinger()
AddLinger(c) ==
    AddResponse(c, Lit.ConnectionHdr \o
                   (IF c.linger_ THEN Lit.keepalive ELSE Lit.close) \o Lit.CRLF)

AddBlankLine(c) == AddResponse(c, Lit.CRLF)

AddContent(c, content) == AddResponse(c, content)

\* AddHeaders(content_len): AddContentLength && AddLinger && AddBlankLine
AddHeadersBlank(r) == IF ~r.ok THEN r ELSE AddBlankLine(r.c)

AddHeadersLinger(r) == IF ~r.ok THEN r ELSE AddHeadersBlank(AddLinger(r.c))

AddHeaders(c, content_len) == AddHeadersLinger(AddContentLength(c, content_len))

\* The error cases of ProcessWrite: status line, headers, the form as body;
\* only AddContent's result is looked at.
ErrorResponse(c, status, title, form) ==
    AddContent(AddHeaders(AddStatusLine(c, status, title).c, Len(form)).c, form)

\* The tail of ProcessWrite behind the switch: one gather entry, the buffer.
SingleIov(r) ==
    IF ~r.ok THEN [c |-> r.c, ok |-> FALSE]
    ELSE [c |-> [r.c EXCEPT !.iov_.base0 = 0, !.iov_.len0 = r.c.write_idx_,
                            !.iov_count_ = 1, !.bytes_to_send_ = r.c.write_idx_],
          ok |-> TRUE]

\* case kFileRequest with a size other than 0, behind AddHeaders
FileIov(c) ==
    [c |-> [c EXCEPT !.iov_ = [base0 |-> 0, len0 |-> c.write_idx_,
                               base1 |-> 0, len1 |-> c.st_size],
                     !.iov_count_ = 2,
                     !.bytes_to_send_ = c.write_idx_ + c.st_size],
     ok |-> TRUE]

\* case kFileRequest behind AddStatusLine.  The branch for size 0 has no
\* break: control falls into default and ProcessWrite returns false.
FileResponse(c) ==
    IF c.st_size # 0
    THEN FileIov(AddHeaders(c, c.st_size).c)
    ELSE [c |-> AddContent(AddHeaders(c, Len(Lit.OkString)).c, Lit.OkString).c,
          ok |-> FALSE]

\* HttpConnection::ProcessWrite(HttpCode ret): the connection after it and
\* the bool it returns.
ProcessWrite(c, ret) ==
    CASE ret = "kInternalError" ->
           SingleIov(ErrorResponse(c, 500, Lit.kError500Title, Lit.kError500Form))
      [] ret = "kBadRequest" ->
           SingleIov(ErrorResponse(c, 404, Lit.kError404Title, Lit.kError404Form))
      [] ret = "kForbiddenRequest" ->
           SingleIov(ErrorResponse(c, 403, Lit.kError403Title, Lit.kError403Form))
      [] ret = "kFileRequest" ->
           FileResponse(AddStatusLine(c, 200, Lit.kOk200Title).c)
      [] OTHER -> [c |-> c, ok |-> FALSE]

(***************************************************************************)
(* The requests a client of the model sends, byte for byte.                *)
(***************************************************************************)
\* Field by field:
\*   GetRoot: a GET of the target /
\*   GetKeepAlive: a keep-alive GET of a page
\*   GetRootKeepAlive: a keep-alive GET of the target /
\*   LoginKeepAlive: the login form with Connection: keep-alive as the
\*     second header
\*   Login, Register: the POST of the login and of the registration form
\*   BadVersion, BadMethod: a version and a method the server refuses
\*   LoneLF, LoneCR: a lone LF ending, and a lone CR inside, the request line
\*   TooLong: a POST that announces a body larger than read_buf_
Req ==
    [GetRoot |-> <<"G", "E", "T", " ", "/", " ", "H", "T", "T", "P", "/", "1",
         ".", "1", "\r", "\n", "\r", "\n">>,
     GetKeepAlive |-> <<"G", "E", "T", " ", "/", "5", " ", "H", "T", "T", "P",
         "/", "1", ".", "1", "\r", "\n", "C", "o", "n", "n", "e", "c",
         "t", "i", "o", "n", ":", " ", "k", "e", "e", "p", "-", "a", "l",
         "i", "v", "e", "\r", "\n", "\r", "\n">>,
     Login |-> <<"P", "O", "S", "T", " ", "/", "2", " ", "H", "T", "T", "P",
         "/", "1", ".", "1", "\r", "\n", "C", "o", "n", "t", "e", "n",
         "t", "-", "L", "e", "n", "g", "t", "h", ":", " ", "1", "7", "\r",
         "\n", "\r", "\n", "u", "s", "e", "r", "=", "a", "&", "p", "a",
         "s", "s", "w", "o", "r", "d", "=", "p">>,
     Register |-> <<"P", "O", "S", "T", " ", "/", "3", " ", "H", "T", "T", "P",
         "/", "1", ".", "1", "\r", "\n", "C", "o", "n", "t", "e", "n",
         "t", "-", "L", "e", "n", "g", "t", "h", ":", " ", "1", "7", "\r",
         "\n", "\r", "\n", "u", "s", "e", "r", "=", "a", "&", "p", "a",
         "s", "s", "w", "o", "r", "d", "=", "p">>,
     GetRootKeepAlive |-> <<"G", "E", "T", " ", "/", " ", "H", "T", "T",
         "P", "/", "1", ".", "1", "\r", "\n", "C", "o", "n", "n", "e", "c",
         "t", "i", "o", "n", ":", " ", "k", "e", "e", "p", "-", "a", "l",
         "i", "v", "e", "\r", "\n", "\r", "\n">>,
     LoginKeepAlive |-> <<"P", "O", "S", "T", " ", "/", "2", " ", "H",
         "T", "T", "P", "/", "1", ".", "1", "\r", "\n", "C", "o", "n", "t",
         "e", "n", "t", "-", "L", "e", "n", "g", "t", "h", ":", " ", "1",
         "7", "\r", "\n", "C", "o", "n", "n", "e", "c", "t", "i", "o", "n",
         ":", " ", "k", "e", "e", "p", "-", "a", "l", "i", "v", "e", "\r",
         "\n", "\r", "\n", "u", "s", "e", "r", "=", "a", "&", "p", "a", "s",
         "s", "w", "o", "r", "d", "=", "p">>,
     BadVersion |-> <<"G", "E", "T", " ", "/", " ", "H", "T", "T", "P", "/",
         "2", ".", "0", "\r", "\n", "\r", "\n">>,
     BadMethod |-> <<"P", "U", "T", " ", "/", " ", "H", "T", "T", "P", "/",
         "1", ".", "1", "\r", "\n", "\r", "\n">>,
     LoneLF |-> <<"G", "E", "T", " ", "/", " ", "H", "T", "T", "P", "/", "1",
         ".", "1", "\n", "\r", "\n">>,
     LoneCR |-> <<"G", "E", "T", " ", "/", "\r", "H", "T", "T", "P", "/", "1",
         ".", "1", "\r", "\n", "\r", "\n">>,
     TooLong |-> <<"P", "O", "S", "T", " ", "/", "2", " ", "H", "T", "T", "P",
         "/", "1", ".", "1", "\r", "\n", "C", "o", "n", "t", "e", "n",
         "t", "-", "L", "e", "n", "g", "t", "h", ":", " ", "3", "0", "0",
         "0", "\r", "\n", "\r", "\n", "u">>]

ValidRequests ==
    {Req.GetRoot, Req.GetKeepAlive, Req.GetRootKeepAlive, Req.Login,
     Req.LoginKeepAlive, Req.Register}

Requests ==
    ValidRequests \cup
    {Req.BadVersion, Req.BadMethod, Req.LoneLF, Req.LoneCR, Req.TooLong}

\* The name and the password of the form bodies above.
UserA == <<"a">>

PwdP == <<"p">>

(***************************************************************************)
(* One connection slot from accept to close, with its socket: the steps    *)
(* the event loop and a worker take on it, in the order one-shot           *)
(* readiness allows them.                                                  *)
(***************************************************************************)
\* The descriptor the slot's connections get.
SlotFd == 1

NoOutcome == [ret |-> "none", line_status |-> "none", write_ret |-> "none",
              parsed |-> <<>>]

\* What the parser has extracted once it reports the request complete.
ParsedFields(c) ==
    [method |-> c.method_,
     url |-> CStr(c.read_buf_, c.url_),
     linger |-> c.linger_,
     content_length |-> c.content_length_,
     body |-> IF c.content_length_ = 0 THEN <<>> ELSE CStr(c.read_buf_, c.string_)]

\* The users cache after initmysql_result: one entry per row of the table.
LoadUsers(rows) ==
    [n \in {r[1] : r \in rows} |-> (CHOOSE r \in rows : r[1] = n)[2]]

\* The slot before any connection: the trigger mode the server was started
\* with, the table as it is at start-up and the cache loaded from it.
SlotVarsStart(trigger_mode, rows) ==
    /\ conn = DefaultConnection
    /\ conn_trigger_mode_ = trigger_mode
    /\ db = rows
    /\ users = LoadUsers(rows)
    /\ sock_open = FALSE
    /\ epoll_ev = "none"
    /\ stream = <<>>
    /\ rx = <<>>
    /\ out = <<>>
    /\ cpc = "idle"
    /\ req = <<>>
    /\ last = NoOutcome
    /\ accepts = 0
    /\ short_writes = 0
    /\ segments = 0

ConnVarsStart(trigger_mode, rows) ==
    SlotVarsStart(trigger_mode, rows) /\ m_user_count = 0

InitConnVars ==
    \E trigger_mode \in {0, 1}, rows \in {{}, {<<UserA, PwdP>>}} :
        ConnVarsStart(trigger_mode, rows)

\* HttpConnection::read_once().  data: the bytes the recv calls deliver;
\* ending: how the last recv returns: "data" (LT: the one recv returned
\* Len(data) > 0), "eof" (0), "error" (-1 with another errno), "again"
\* (ET: -1 with EAGAIN).
ReadOnce(c, data, ending) ==
    IF c.read_idx_ >= kReadBufferSize
    THEN [c |-> c, ok |-> FALSE]
    ELSE IF c.trigger_mode_ = 0
    THEN LET bytes_read == CASE ending = "data" -> Len(data)
                             [] ending = "eof" -> 0
                             [] OTHER -> -1
         IN  [c |-> [c EXCEPT !.read_buf_ = StoreBytes(@, c.read_idx_, data),
                              !.read_idx_ = ToSizeT(@ + bytes_read)],
              ok |-> bytes_read > 0]
    ELSE [c |-> [c EXCEPT !.read_buf_ = StoreBytes(@, c.read_idx_, data),
                          !.read_idx_ = @ + Len(data)],
          ok |-> ending = "again"]

\* The inputs read_once can meet: in LT mode one recv (some bytes, 0 or -1);
\* in ET mode recv until it returns -1 or 0, and a recv into a full buffer
\* (length 0) returns 0.  The piece that arrives is any prefix of what the
\* client has yet to deliver, the last of MaxSegments pieces all of it.
ReadInputs(c) ==
    LET room == kReadBufferSize - c.read_idx_
        most == IF Len(stream) < room THEN Len(stream) ELSE room
        pieces == IF segments >= MaxSegments THEN {}
                  ELSE {n \in 1..most :
                          segments + 1 < MaxSegments \/ n = Len(stream)}
    IN  IF c.trigger_mode_ = 0
        THEN {[n |-> n, ending |-> "data"] : n \in pieces} \cup
             {[n |-> 0, ending |-> "eof"], [n |-> 0, ending |-> "error"]}
        ELSE {[n |-> n, ending |-> e] :
                 n \in pieces \cup {0}, e \in {"again", "eof", "error"}} \ 
             {[n |-> room, ending |-> e] : e \in {"again", "error"}}

\* TimerCallback(ClientData*): the loop thread closes the slot's descriptor.
LoopCloses ==
    /\ sock_open' = FALSE
    /\ epoll_ev' = "none"
    /\ m_user_count' = m_user_count - 1

\* WebServer::HandleClientData / AddTimer: accept a connection into the slot.
C_Accept ==
    /\ ~sock_open /\ cpc = "idle" /\ accepts = 0
    /\ accepts' = accepts + 1
    /\ conn' = InitConnectionFd(conn, SlotFd, conn_trigger_mode_)
    /\ m_user_count' = m_user_count + 1
    /\ sock_open' = TRUE
    /\ epoll_ev' = "IN"
    /\ \E r \in Requests : req' = r /\ stream' = r
    /\ rx' = <<>> /\ out' = <<>> /\ last' = NoOutcome
    /\ short_writes' = 0
    /\ segments' = 0
    /\ UNCHANGED <<conn_trigger_mode_, users, db, cpc, timerVars, srvVars, ctlVars>>

\* WebServer::HandleRead, the read_once() of it: on success the slot is
\* queued for process(), on failure HandleTimer closes the connection.
C_ReadOnce ==
    /\ sock_open /\ epoll_ev = "IN" /\ cpc = "idle"
    /\ \E i \in ReadInputs(conn) :
         LET data == SubSeq(stream, 1, i.n)
             r == ReadOnce(conn, data, i.ending)
         IN  /\ conn' = r.c
             /\ stream' = SubSeq(stream, i.n + 1, Len(stream))
             /\ rx' = rx \o data
             /\ segments' = IF i.n > 0 THEN segments + 1 ELSE segments
             /\ IF r.ok
                THEN /\ cpc' = "process"
                     /\ epoll_ev' = "off"
                     /\ UNCHANGED <<sock_open, m_user_count>>
                ELSE /\ cpc' = "idle"
                     /\ LoopCloses
    /\ UNCHANGED <<conn_trigger_mode_, users, db, out, req, last, accepts, short_writes,
                   timerVars, srvVars, ctlVars>>

\* HttpConnection::close_conn() with real_close
CloseConn(c) == IF c.sockfd_ # -1 THEN [c EXCEPT !.sockfd_ = -1] ELSE c

\* process() behind ProcessWrite: close_conn() when it returned false, and
\* ModifyFd(EPOLLOUT), which fails silently on a closed descriptor.
ProcessRespond(r, d, w) ==
    /\ users' = d.cache
    /\ last' = [ret |-> d.ret, line_status |-> r.line_status,
                write_ret |-> IF w.ok THEN "true" ELSE "false",
                parsed |-> IF r.ret = "kGetRequest" THEN <<ParsedFields(r.c)>>
                           ELSE last.parsed]
    /\ IF w.ok
       THEN /\ conn' = w.c
            /\ epoll_ev' = "OUT"
            /\ UNCHANGED <<sock_open, m_user_count>>
       ELSE /\ conn' = CloseConn(w.c)
            /\ sock_open' = FALSE
            /\ epoll_ev' = "none"
            /\ m_user_count' = m_user_count - 1

\* process() behind ProcessRead: d is what ProcessRead returns, DoRequest's
\* outcome where ProcessRead ends in "return DoRequest()".
ProcessAnswer(r, d, res) ==
    /\ db' = IF d.query # <<>> /\ res = 0 THEN db \cup {d.query} ELSE db
    /\ ProcessRespond(r, d, ProcessWrite(d.c, d.ret))

ProcessOutcome(r, st, res) ==
    IF r.ret = "kNoRequest"
    THEN /\ conn' = r.c
         /\ epoll_ev' = "IN"
         /\ last' = [ret |-> r.ret, line_status |-> r.line_status,
                     write_ret |-> "none", parsed |-> last.parsed]
         /\ UNCHANGED <<users, db, sock_open, m_user_count>>
    ELSE IF r.ret = "kGetRequest"
    THEN ProcessAnswer(r, DoRequest(r.c, users, st, res), res)
    ELSE ProcessAnswer(r, [c |-> r.c, ret |-> r.ret, cache |-> users,
                           query |-> <<>>], res)

\* What stat() and mysql_query() can report to this process(): they are
\* called only when the request is complete, the query only for a form.
StatInputs(r) ==
    IF r.ret = "kGetRequest" THEN StatResults
    ELSE {[kind |-> "missing", size |-> 0]}

QueryInputs(r) == IF r.ret = "kGetRequest" /\ r.c.cgi_ = 1 THEN {0, 1} ELSE {0}

\* HttpConnection::process() on a worker: ProcessRead (with DoRequest when
\* the request is complete), ProcessWrite, close_conn() when that fails,
\* and the ModifyFd that re-arms the descriptor.
C_Process ==
    /\ cpc = "process"
    /\ cpc' = "idle"
    /\ LET r == ProcessRead(conn)
       IN  \E st \in StatInputs(r), res \in QueryInputs(r) :
               ProcessOutcome(r, st, res)
    /\ UNCHANGED <<conn_trigger_mode_, stream, rx, out, req, accepts, segments,
                   short_writes, timerVars, srvVars, ctlVars>>

\* The bytes of the mapped file.
FileBytes(size) == [i \in 1..size |-> Digits[((i - 1) % 10) + 1]]

\* What writev(sockfd_, iov_, iov_count_) can gather: the bytes of iov_[0]
\* from write_buf_, then, with two entries, those of iov_[1] from the
\* mapping ("?" for an address in front of the mapping).
Gathered(c) ==
    [i \in 1..c.iov_.len0 |-> Rd(c.write_buf_, c.iov_.base0 + i - 1)] \o
    (IF c.iov_count_ = 2
     THEN [i \in 1..c.iov_.len1 |->
              LET off == c.iov_.base1 + i - 1
              IN  IF off >= 0 /\ off < c.st_size
                  THEN FileBytes(c.st_size)[off + 1] ELSE "?"]
     ELSE <<>>)

\* A faulty pass: bytes_to_send_ is not reduced.
AfterWritevNoLeft(c, temp) ==
    [c EXCEPT !.bytes_have_send_ = c.bytes_have_send_ + temp,
              !.iov_.base0 = c.bytes_have_send_ + temp]

\* One pass of the while loop of HttpConnection::write() in which writev
\* returned temp >= 0: the members after the counters and iov_ are updated.
AfterWritev(c, temp) ==
    LET have == c.bytes_have_send_ + temp
        left == c.bytes_to_send_ - temp
    IN  IF have >= c.iov_.len0
        THEN [c EXCEPT !.bytes_have_send_ = have, !.bytes_to_send_ = left,
                       !.iov_.len0 = 0,
                       !.iov_.base1 = have - c.write_idx_,
                       !.iov_.len1 = ToSizeT(left)]
        ELSE [c EXCEPT !.bytes_have_send_ = have, !.bytes_to_send_ = left,
                       !.iov_.base0 = have,
                       !.iov_.len0 = c.iov_.len0 - have]

\* WebServer::HandleWrite, entering write(): with nothing to send the
\* connection is re-armed for reading and reinitialised.
C_Write ==
    /\ sock_open /\ epoll_ev = "OUT" /\ cpc = "idle"
    /\ IF conn.bytes_to_send_ = 0
       THEN /\ conn' = InitConnection(conn)
            /\ epoll_ev' = "IN"
            /\ cpc' = "idle"
       ELSE /\ conn' = conn
            /\ epoll_ev' = "off"
            /\ cpc' = "writev"
    /\ UNCHANGED <<conn_trigger_mode_, users, db, m_user_count, sock_open,
                   stream, rx, out, req, last, accepts, segments, short_writes, timerVars, srvVars, ctlVars>>

\* One writev of the loop of write() that delivers temp bytes.
C_Writev ==
    /\ cpc = "writev"
    /\ \E temp \in 0..Len(Gathered(conn)) :
         /\ temp = 0 => Len(Gathered(conn)) = 0
         /\ IF temp = Len(Gathered(conn))
            THEN short_writes' = short_writes
            ELSE /\ temp <= MaxShortWrite
                 /\ short_writes < MaxShortWrites
                 /\ short_writes' = short_writes + 1
         /\ out' = out \o SubSeq(Gathered(conn), 1, temp)
         /\ LET c1 == AfterWritev(conn, temp)
            IN  IF c1.bytes_to_send_ <= 0
                THEN /\ cpc' = "idle"
                     /\ IF c1.linger_
                        THEN /\ conn' = InitConnection(Unmap(c1))
                             /\ epoll_ev' = "IN"
                             /\ UNCHANGED <<sock_open, m_user_count>>
                        ELSE /\ conn' = Unmap(c1)
                             /\ LoopCloses
                ELSE /\ conn' = c1
                     /\ UNCHANGED <<cpc, epoll_ev, sock_open, m_user_count>>
    /\ UNCHANGED <<conn_trigger_mode_, users, db, stream, rx, req, last,
                   accepts, segments, timerVars, srvVars, ctlVars>>

\* A writev of the loop that returns -1 with EAGAIN: re-arm for writing.
C_WritevAgain ==
    /\ cpc = "writev"
    /\ cpc' = "idle"
    /\ epoll_ev' = "OUT"
    /\ UNCHANGED <<conn, conn_trigger_mode_, users, db, m_user_count,
                   sock_open, stream, rx, out, req, last, accepts, segments, short_writes, timerVars, srvVars, ctlVars>>

\* A writev of the loop that fails otherwise: Unmap, write() returns false
\* and HandleTimer closes the connection.
C_WritevError ==
    /\ cpc = "writev"
    /\ cpc' = "idle"
    /\ conn' = Unmap(conn)
    /\ LoopCloses
    /\ UNCHANGED <<conn_trigger_mode_, users, db, stream, rx, out, req, last,
                   accepts, segments, short_writes, timerVars, srvVars, ctlVars>>

\* The peer hangs up, or the idle timer expires, while the descriptor is
\* armed: HandleTimer / TimerCallback close the connection.
C_Hangup ==
    /\ sock_open /\ epoll_ev \in {"IN", "OUT"} /\ cpc = "idle"
    /\ LoopCloses
    /\ UNCHANGED <<conn, conn_trigger_mode_, users, db, stream, rx, out, cpc,
                   req, last, accepts, segments, short_writes, timerVars, srvVars, ctlVars>>

NextConn ==
    \/ C_Accept
    \/ C_ReadOnce
    \/ C_Process
    \/ C_Write
    \/ C_Writev
    \/ C_WritevAgain
    \/ C_WritevError
    \/ C_Hangup

(***************************************************************************)
(* Spec: the server.  The event-loop thread (WebServer::EventLoop) accepts *)
(* connections, gives each a timer, and on a ready event either does the   *)
(* I/O itself and queues the slot (Proactor) or queues the slot and spins  *)
(* until a worker reports (Reactor).  Workers (ThreadPool::Run) take slots *)
(* from the queue.  What process(), read_once() and write() compute from   *)
(* the bytes is SpecConn's subject; here they are the choice of their      *)
(* outcome, with their effect on the descriptor and on the shared members  *)
(* of the slot.                                                            *)
(***************************************************************************)
\* The list and the heap become the list value H.
SetList(H) ==
    /\ timer_list_' = [head_ |-> H.head_, tail_ |-> H.tail_]
    /\ heap' = H.mem

InitTimerVars ==
    /\ timer_list_ = [head_ |-> NullTimer, tail_ |-> NullTimer]
    /\ heap = [t \in TimerIds |-> FreeNode]
    /\ now = 0
    /\ cb_log = <<>>
    /\ allocated = 0

kTimeSlot == 5
kMaxFd == 65536

Fds == 1..MaxConn
\* The threads of ThreadPool::threads_.
Workers == DOMAIN worker

FreshSlot(sockfd) ==
    [sockfd_ |-> sockfd, m_state |-> DefaultConnection.m_state,
     improv |-> DefaultConnection.improv,
     timer_flag |-> DefaultConnection.timer_flag]

\* The server behind WebServer::ThreadPool(): thread_number threads in Run.
PoolStart(model, thread_number) ==
    /\ actor_model_ = model
    /\ kernel = [f \in Fds |-> [open |-> FALSE, ev |-> "none"]]
    /\ users_ = [f \in Fds |-> FreshSlot(DefaultConnection.sockfd_)]
    /\ users_timer_ = [f \in Fds |-> [sockfd |-> -1, timer |-> NullTimer]]
    /\ work_queue_ = <<>>
    /\ worker = [w \in 1..thread_number |-> [pc |-> "idle", fd |-> 0]]
    /\ loop = [pc |-> "wait", fd |-> 0, timer |-> NullTimer]
    /\ timeout = FALSE
    /\ loop_touch = {}

SrvVarsStart(model) == PoolStart(model, ThreadNumber)

InitSrvVars == \E model \in {0, 1} : SrvVarsStart(model)

\* A faulty alarm() that sets nothing.
AlarmOff(seconds) == 0

\* alarm(seconds): the clock is set to seconds, whatever it held.
Alarm(seconds) == seconds

\* No event taken from events_ yet.
NoEvent == [fd |-> 0, events |-> {}, expire |-> 0]

\* The threads that use the connection pool, and its connections.
Callers == 1..MaxCallers

SqlConns == 1..MaxSqlConn

\* ConnectionPool::Init with max_conn connections, no thread in the pool.
SqlVarsStart(max_conn) ==
    /\ conn_list_ = [i \in 1..max_conn |-> i]
    /\ free_conn_count_ = max_conn
    /\ cur_conn_count_ = 0
    /\ mutex_ = 0
    /\ caller = [c \in Callers |-> [pc |-> "out", conn |-> 0, ret |-> "none"]]
    /\ destroyer = "idle"

\* The workers that run DoRequest on a registration form.
Registrants == 1..MaxRegistrants

NoForm == [pc |-> "idle", name |-> <<>>, password |-> <<>>, query |-> FALSE,
           url |-> <<>>]

RegVarsStart ==
    /\ users_mutex = 0
    /\ reg = [t \in Registrants |-> NoForm]

\* The listener as SetTriggerMode leaves it, nothing refused yet.
CtlVarsStart(listen_mode) ==
    /\ RegVarsStart
    /\ SqlVarsStart(MaxSqlConn)
    /\ listen_trigger_mode_ = listen_mode
    /\ is_destroyed_ = FALSE
    /\ refused = <<>>
    /\ sig_pipe = <<>>
    /\ stop_server = FALSE
    /\ run = "wait"
    /\ stop_ = FALSE
    /\ event = NoEvent
    /\ alarm_ = Alarm(kTimeSlot)

\* close(fd), which also drops the descriptor's epoll registration.
KClose(k, fd) ==
    IF fd \in Fds THEN [k EXCEPT ![fd] = [open |-> FALSE, ev |-> "none"]] ELSE k

\* epoll_ctl(EPOLL_CTL_MOD) of ModifyFd: fails, changing nothing, on a
\* descriptor that is closed or not registered.
ModifyFd(k, fd, ev) ==
    IF fd \in Fds /\ k[fd].ev # "none" THEN [k EXCEPT ![fd].ev = ev] ELSE k

\* A worker has taken the slot from the queue and is not done with it.
Holds(f) == \E w \in Workers : worker[w].pc # "idle" /\ worker[w].fd = f

Queued(f) == \E i \in 1..Len(work_queue_) : work_queue_[i] = f

\* The descriptor is registered with an event enabled: epoll_wait can
\* report it to the loop thread.
Armed(f) == kernel[f].open /\ kernel[f].ev \in {"IN", "OUT"}

\* ThreadPool::Append / AppendProactor on the queue.
PoolFull == Len(work_queue_) >= MaxRequests

\* An empty std::shared_ptr<T>.
NullRequest == 0

\* A faulty pool: Append without the test of work_queue_.size().
PoolAppendNoFull(request) ==
    IF request = NullRequest
    THEN [ret |-> FALSE, queue |-> work_queue_]
    ELSE [ret |-> TRUE, queue |-> Append(work_queue_, request)]

\* Append(request, state) and AppendProactor(request): the value returned
\* and the queue left behind.
PoolAppend(request) ==
    IF request = NullRequest
    THEN [ret |-> FALSE, queue |-> work_queue_]
    ELSE IF PoolFull
    THEN [ret |-> FALSE, queue |-> work_queue_]
    ELSE [ret |-> TRUE, queue |-> Append(work_queue_, request)]

\* WebServer::AdjustTimer behind its caller's "if (timer)".
AdjustTimer(timer) ==
    IF timer # NullTimer
    THEN SetList(ListAdjustTimer(
             [TheList EXCEPT !.mem[timer].expire_time_ = now + 3 * kTimeSlot],
             timer))
    ELSE UNCHANGED <<timer_list_, heap>>

\* WebServer::HandleTimer(timer, sockfd), with TimerCallback.
HandleTimer(timer, sockfd) ==
    /\ IF timer # NullTimer
       THEN /\ kernel' = KClose(kernel, users_timer_[sockfd].sockfd)
            /\ m_user_count' = m_user_count - 1
            /\ SetList(ListDeleteTimer(TheList, timer))
       ELSE UNCHANGED <<kernel, m_user_count, timer_list_, heap>>
    /\ users_timer_' = [users_timer_ EXCEPT ![sockfd].timer = NullTimer]

\* SIGALRM: kTimeSlot seconds have passed; the handler writes the pipe and
\* HandleSignal will set timeout.
A_Alarm ==
    /\ now < MaxAlarms * kTimeSlot
    /\ now' = now + kTimeSlot
    /\ timeout' = TRUE
    /\ loop_touch' = {}
    /\ UNCHANGED <<timer_list_, heap, cb_log, allocated, connVars,
                   ctlVars, actor_model_, kernel, users_, users_timer_, work_queue_,
                   worker, loop>>

\* HandleClientData and AddTimer: accept returns the lowest free descriptor.
L_Accept ==
    \E connfd \in Fds :
        /\ loop.pc = "wait"
        /\ allocated < MaxTimers
        /\ m_user_count < kMaxFd
        /\ ~kernel[connfd].open
        /\ \A g \in Fds : g < connfd => kernel[g].open
        /\ users_' = [users_ EXCEPT ![connfd] = FreshSlot(connfd)]
        /\ kernel' = [kernel EXCEPT ![connfd] = [open |-> TRUE, ev |-> "IN"]]
        /\ m_user_count' = m_user_count + 1
        /\ users_timer_' = [users_timer_ EXCEPT
               ![connfd] = [sockfd |-> connfd, timer |-> allocated + 1]]
        /\ allocated' = allocated + 1
        /\ SetList(ListAddTimer(
               [TheList EXCEPT !.mem[allocated + 1] =
                    NewTimerNode(now + 3 * kTimeSlot, connfd)],
               allocated + 1))
        /\ loop_touch' = {connfd}
        /\ UNCHANGED <<now, cb_log, slotVars, ctlVars, actor_model_, work_queue_,
                       worker, loop, timeout>>

\* The branch of EventLoop for EPOLLRDHUP | EPOLLHUP | EPOLLERR on sockfd.
HandleHangup(sockfd) ==
    /\ HandleTimer(users_timer_[sockfd].timer, sockfd)
    /\ loop_touch' = {sockfd}
    /\ UNCHANGED <<now, cb_log, allocated, slotVars, runVars, actor_model_, users_,
                   work_queue_, worker, loop, timeout>>

\* EventLoop on EPOLLRDHUP | EPOLLHUP | EPOLLERR.
L_Hangup ==
    \E sockfd \in Fds :
        /\ loop.pc = "wait"
        /\ Armed(sockfd)
        /\ HandleHangup(sockfd)
        /\ UNCHANGED event

\* The Reactor branch of HandleRead / HandleWrite up to its while (true).
ReactorHandle(sockfd, state) ==
    /\ AdjustTimer(users_timer_[sockfd].timer)
    /\ kernel' = [kernel EXCEPT ![sockfd].ev = "off"]
    /\ work_queue_' = PoolAppend(sockfd).queue
    /\ users_' = IF PoolAppend(sockfd).ret
                 THEN [users_ EXCEPT ![sockfd].m_state = state]
                 ELSE users_
    /\ loop' = [pc |-> "spin", fd |-> sockfd,
                timer |-> users_timer_[sockfd].timer]
    /\ loop_touch' = {sockfd}
    /\ UNCHANGED <<now, cb_log, allocated, connVars, runVars, actor_model_,
                   users_timer_, worker, timeout>>

\* The Proactor branch of HandleRead.
ProactorRead(sockfd, ok) ==
    /\ IF ok
       THEN /\ work_queue_' = PoolAppend(sockfd).queue
            /\ AdjustTimer(users_timer_[sockfd].timer)
            /\ kernel' = [kernel EXCEPT ![sockfd].ev = "off"]
            /\ UNCHANGED <<users_timer_, m_user_count>>
       ELSE /\ HandleTimer(users_timer_[sockfd].timer, sockfd)
            /\ UNCHANGED work_queue_
    /\ loop_touch' = {sockfd}
    /\ UNCHANGED <<now, cb_log, allocated, slotVars, runVars, actor_model_, users_,
                   worker, loop, timeout>>

\* HttpConnection::write as the descriptor and the slot's shared members
\* see it: "again" (EAGAIN, re-armed for EPOLLOUT, true), "kept" (all sent,
\* keep-alive: re-armed for EPOLLIN, init(), true), "closed" (all sent, no
\* keep-alive: re-armed for EPOLLIN, false), "error" (false).
WriteResults == {"again", "kept", "closed", "error"}

WriteModifyFd(k, fd, res) ==
    IF res = "again" THEN ModifyFd(k, fd, "OUT")
    ELSE IF res = "error" THEN k
    ELSE ModifyFd(k, fd, "IN")

WriteSlot(u, res) == IF res = "kept" THEN FreshSlot(u.sockfd_) ELSE u

\* The Proactor branch of HandleWrite.
ProactorWrite(sockfd, res) ==
    /\ users_' = [users_ EXCEPT ![sockfd] = WriteSlot(@, res)]
    /\ IF res \in {"again", "kept"}
       THEN /\ kernel' = WriteModifyFd([kernel EXCEPT ![sockfd].ev = "off"],
                                       users_[sockfd].sockfd_, res)
            /\ AdjustTimer(users_timer_[sockfd].timer)
            /\ UNCHANGED <<users_timer_, m_user_count>>
       ELSE HandleTimer(users_timer_[sockfd].timer, sockfd)
    /\ loop_touch' = {sockfd}
    /\ UNCHANGED <<now, cb_log, allocated, slotVars, runVars, actor_model_,
                   work_queue_, worker, loop, timeout>>

\* WebServer::HandleRead(sockfd)
HandleRead(sockfd) ==
    \/ actor_model_ = 1 /\ ReactorHandle(sockfd, 0)
    \/ actor_model_ # 1 /\ \E ok \in BOOLEAN : ProactorRead(sockfd, ok)

\* WebServer::HandleWrite(sockfd)
HandleWrite(sockfd) ==
    \/ actor_model_ = 1 /\ ReactorHandle(sockfd, 1)
    \/ actor_model_ # 1 /\ \E res \in WriteResults : ProactorWrite(sockfd, res)

\* EventLoop on EPOLLIN: HandleRead.
L_Read ==
    \E sockfd \in Fds :
        /\ loop.pc = "wait"
        /\ kernel[sockfd].open /\ kernel[sockfd].ev = "IN"
        /\ HandleRead(sockfd)
        /\ UNCHANGED event

\* EventLoop on EPOLLOUT: HandleWrite.
L_Write ==
    \E sockfd \in Fds :
        /\ loop.pc = "wait"
        /\ kernel[sockfd].open /\ kernel[sockfd].ev = "OUT"
        /\ HandleWrite(sockfd)
        /\ UNCHANGED event

\* The while (true) of the Reactor branch, once it reads improv == 1.
L_Spin ==
    /\ loop.pc = "spin"
    /\ users_[loop.fd].improv = 1
    /\ IF users_[loop.fd].timer_flag = 1
       THEN HandleTimer(loop.timer, loop.fd)
       ELSE UNCHANGED <<kernel, m_user_count, timer_list_, heap, users_timer_>>
    /\ users_' = [users_ EXCEPT ![loop.fd].timer_flag = 0,
                                ![loop.fd].improv = 0]
    /\ loop' = [pc |-> "wait", fd |-> 0, timer |-> NullTimer]
    /\ loop_touch' = {loop.fd}
    /\ UNCHANGED <<now, cb_log, allocated, slotVars, ctlVars, actor_model_,
                   work_queue_, worker, timeout>>

\* A faulty tick: the nodes go, their callback closes nothing.
TickClosedNone(gone) == {}

\* The descriptors TimerCallback closes for the nodes Tick expires.
TickClosed(gone) ==
    {users_timer_[heap[gone[i]].user_data_].sockfd : i \in 1..Len(gone)}

\* EventLoop after the batch, with timeout set: TimerUtils::HandleTimer,
\* that is Tick with TimerCallback on every expired node.
TickBody ==
    /\ loop.pc = "wait"
    /\ timeout
    /\ timeout' = FALSE
    /\ LET gone == TickExpired(TheList, timer_list_.head_, now)
       IN  /\ cb_log' = cb_log \o
                   [i \in 1..Len(gone) |->
                       [timer |-> gone[i], user_data |-> heap[gone[i]].user_data_]]
           /\ kernel' = [f \in Fds |->
                   IF f \in TickClosed(gone)
                   THEN [open |-> FALSE, ev |-> "none"] ELSE kernel[f]]
           /\ m_user_count' = m_user_count - Len(gone)
           /\ loop_touch' = {heap[gone[i]].user_data_ : i \in 1..Len(gone)}
    /\ SetList(ListTick(TheList, now))
    /\ UNCHANGED <<now, allocated, slotVars, actor_model_, users_,
                   users_timer_, work_queue_, worker, loop>>

L_Tick == TickBody /\ UNCHANGED ctlVars

\* A faulty Run that takes the back of the queue.
TakeBack(w) ==
    /\ work_queue_ # <<>>
    /\ work_queue_' = SubSeq(work_queue_, 1, Len(work_queue_) - 1)
    /\ worker' = [worker EXCEPT ![w] =
           [pc |-> IF actor_model_ = 1 THEN "io" ELSE "process",
            fd |-> work_queue_[Len(work_queue_)]]]
    /\ loop_touch' = {}
    /\ UNCHANGED <<timerVars, connVars, ctlVars, actor_model_, kernel, users_,
                   users_timer_, loop, timeout>>

\* ThreadPool::Run behind queue_cond_.wait: take the front of the queue.
Take(w) ==
    /\ work_queue_ # <<>>
    /\ work_queue_' = Tail(work_queue_)
    /\ worker' = [worker EXCEPT ![w] =
           [pc |-> IF actor_model_ = 1 THEN "io" ELSE "process",
            fd |-> Head(work_queue_)]]
    /\ loop_touch' = {}
    /\ UNCHANGED <<timerVars, connVars, ctlVars, actor_model_, kernel, users_,
                   users_timer_, loop, timeout>>

\* ThreadPool::Run: while (!stop_), the wait and the pop.
W_Take == \E w \in Workers : worker[w].pc = "idle" /\ Take(w)

\* Run, Reactor, m_state == 0: read_once(), then improv = 1; process() or
\* timer_flag = 1 follows.
W_ReactorRead ==
    \E w \in Workers, ok \in BOOLEAN :
        /\ worker[w].pc = "io"
        /\ users_[worker[w].fd].m_state = 0
        /\ users_' = [users_ EXCEPT ![worker[w].fd].improv = 1]
        /\ worker' = [worker EXCEPT ![w].pc = IF ok THEN "process" ELSE "flag"]
        /\ loop_touch' = {}
        /\ UNCHANGED <<timerVars, connVars, ctlVars, actor_model_, kernel,
                       users_timer_, work_queue_, loop, timeout>>

\* Run, Reactor, m_state != 0: write(), then improv = 1; on false
\* timer_flag = 1 follows.
W_ReactorWrite ==
    \E w \in Workers, res \in WriteResults :
        /\ worker[w].pc = "io"
        /\ users_[worker[w].fd].m_state # 0
        /\ kernel' = WriteModifyFd(kernel, users_[worker[w].fd].sockfd_, res)
        /\ users_' = [users_ EXCEPT ![worker[w].fd] =
               [WriteSlot(@, res) EXCEPT !.improv = 1]]
        /\ worker' = [worker EXCEPT ![w] =
               IF res \in {"again", "kept"}
               THEN [pc |-> "idle", fd |-> 0] ELSE [@ EXCEPT !.pc = "flag"]]
        /\ loop_touch' = {}
        /\ UNCHANGED <<timerVars, connVars, ctlVars, actor_model_, users_timer_,
                       work_queue_, loop, timeout>>

\* A faulty worker: on failed I/O it destroys the connection itself.
W_FlagHandlesTimer ==
    \E w \in Workers :
        /\ worker[w].pc = "flag"
        /\ HandleTimer(users_timer_[worker[w].fd].timer, worker[w].fd)
        /\ worker' = [worker EXCEPT ![w] = [pc |-> "idle", fd |-> 0]]
        /\ loop_touch' = {}
        /\ UNCHANGED <<now, cb_log, allocated, slotVars, ctlVars, actor_model_,
                       users_, work_queue_, loop, timeout>>

\* Run, Reactor: request->timer_flag = 1.
W_Flag ==
    \E w \in Workers :
        /\ worker[w].pc = "flag"
        /\ users_' = [users_ EXCEPT ![worker[w].fd].timer_flag = 1]
        /\ worker' = [worker EXCEPT ![w] = [pc |-> "idle", fd |-> 0]]
        /\ loop_touch' = {}
        /\ UNCHANGED <<timerVars, connVars, ctlVars, actor_model_, kernel,
                       users_timer_, work_queue_, loop, timeout>>

\* HttpConnection::process as the descriptor sees it: "kNoRequest"
\* (re-armed for EPOLLIN), "respond" (ProcessWrite true: re-armed for
\* EPOLLOUT), "refuse" (ProcessWrite false: close_conn(), then ModifyFd on
\* sockfd_ == -1).
ProcessResults == {"kNoRequest", "respond", "refuse"}

\* HttpConnection::close_conn on the descriptor.
CloseConnFd(k, u) == IF u.sockfd_ # -1 THEN KClose(k, u.sockfd_) ELSE k

W_Process ==
    \E w \in Workers, res \in ProcessResults :
        /\ worker[w].pc = "process"
        /\ IF res = "refuse"
           THEN /\ kernel' = CloseConnFd(kernel, users_[worker[w].fd])
                /\ users_' = [users_ EXCEPT ![worker[w].fd].sockfd_ = -1]
                /\ m_user_count' =
                       IF users_[worker[w].fd].sockfd_ # -1
                       THEN m_user_count - 1 ELSE m_user_count
           ELSE /\ kernel' = ModifyFd(kernel, users_[worker[w].fd].sockfd_,
                                      IF res = "respond" THEN "OUT" ELSE "IN")
                /\ UNCHANGED <<users_, m_user_count>>
        /\ worker' = [worker EXCEPT ![w] = [pc |-> "idle", fd |-> 0]]
        /\ loop_touch' = {}
        /\ UNCHANGED <<timerVars, slotVars, ctlVars, actor_model_, users_timer_,
                       work_queue_, loop, timeout>>

Next ==
    \/ A_Alarm
    \/ L_Accept
    \/ L_Hangup
    \/ L_Read
    \/ L_Write
    \/ L_Spin
    \/ L_Tick
    \/ W_Take
    \/ W_ReactorRead
    \/ W_ReactorWrite
    \/ W_Flag
    \/ W_Process

Init ==
    InitTimerVars /\ ConnVarsStart(0, {}) /\ InitSrvVars /\ CtlVarsStart(0)

Spec == Init /\ [][Next]_vars

\* The server with its threads scheduled: a worker that can take a step
\* takes it, the loop thread leaves its spin once improv is set, and the
\* tick, which EventLoop runs behind every batch of events while timeout
\* is set, is not put off for ever by further events.  FairSpec follows
\* the runs that accept fewer than MaxTimers connections.
NextFair ==
    \/ A_Alarm
    \/ L_Accept /\ allocated' < MaxTimers
    \/ L_Hangup
    \/ L_Read
    \/ L_Write
    \/ L_Spin
    \/ L_Tick
    \/ W_Take
    \/ W_ReactorRead
    \/ W_ReactorWrite
    \/ W_Flag
    \/ W_Process

FairSpec ==
    /\ Init
    /\ [][NextFair]_vars
    /\ SF_vars(L_Tick)
    /\ WF_vars(L_Spin)
    /\ WF_vars(W_Take)
    /\ WF_vars(W_ReactorRead)
    /\ WF_vars(W_ReactorWrite)
    /\ WF_vars(W_Flag)
    /\ WF_vars(W_Process)

(***************************************************************************)
(* SpecAccept: the listener.  HandleClientData accepts one connection (LT) *)
(* or every connection of the backlog (ET) and promotes it with AddTimer,  *)
(* unless m_user_count has reached kMaxFd: then ShowError answers and      *)
(* closes the socket.  Connections leave by hang-up or by expiry.  The     *)
(* count starts at 0 or one below the cap, the connections it then counts  *)
(* living on descriptors other than Fds.                                   *)
(***************************************************************************)
\* The info HandleClientData hands to ShowError.
BusyInfo == "Internal server busy"

\* The part of the state HandleClientData works on.
AcceptState ==
    [users_ |-> users_, kernel |-> kernel, m_user_count |-> m_user_count,
     users_timer_ |-> users_timer_, allocated |-> allocated, H |-> TheList,
     refused |-> refused]

\* accept(): the lowest descriptor that is not open.
LowestFree(k) ==
    CHOOSE f \in Fds : ~k[f].open /\ \A g \in Fds : g < f => k[g].open

\* WebServer::AddTimer(connfd, client_address) on that part of the state.
AddTimerTo(S, connfd) ==
    [S EXCEPT
        !.users_[connfd] = FreshSlot(connfd),
        !.kernel[connfd] = [open |-> TRUE, ev |-> "IN"],
        !.m_user_count = @ + 1,
        !.users_timer_[connfd] = [sockfd |-> connfd, timer |-> S.allocated + 1],
        !.allocated = @ + 1,
        !.H = ListAddTimer(
                  [S.H EXCEPT !.mem[S.allocated + 1] =
                       NewTimerNode(now + 3 * kTimeSlot, connfd)],
                  S.allocated + 1)]

\* TimerUtils::ShowError(connfd, info): send, then close.
ShowError(S, connfd, info) ==
    [S EXCEPT !.refused =
        Append(@, [sockfd |-> connfd, sent |-> info, open |-> FALSE])]

\* A faulty accept: promotes the connection whatever the count.
AcceptOneNoCap(S) == AddTimerTo(S, LowestFree(S.kernel))

\* One accepted connection: the test of m_user_count, ShowError or AddTimer.
AcceptOne(S) ==
    IF S.m_user_count >= kMaxFd
    THEN ShowError(S, LowestFree(S.kernel), BusyInfo)
    ELSE AddTimerTo(S, LowestFree(S.kernel))

\* The ET branch: while (true) accept, until accept fails (the n pending
\* connections are taken) or the count is at the cap.
RECURSIVE AcceptLoop(_, _)
AcceptLoop(S, n) ==
    IF n = 0 THEN S
    ELSE IF S.m_user_count >= kMaxFd THEN AcceptOne(S)
    ELSE AcceptLoop(AcceptOne(S), n - 1)

\* WebServer::HandleClientData with n connections pending.
HandleClientData(S, n) ==
    IF listen_trigger_mode_ = 0 THEN AcceptOne(S) ELSE AcceptLoop(S, n)

AcceptStateNext(S) ==
    /\ users_' = S.users_
    /\ kernel' = S.kernel
    /\ m_user_count' = S.m_user_count
    /\ users_timer_' = S.users_timer_
    /\ allocated' = S.allocated
    /\ SetList(S.H)
    /\ refused' = S.refused
    /\ loop_touch' = {f \in Fds : S.kernel[f].open /\ ~kernel[f].open}

\* EventLoop on an event of listen_fd_.
L_Listen ==
    \E n \in 1..MaxBacklog :
        /\ loop.pc = "wait"
        /\ listen_trigger_mode_ = 0 => n = 1
        /\ n <= Cardinality({f \in Fds : ~kernel[f].open})
        /\ allocated + n <= MaxTimers
        /\ Len(refused) < MaxRefused
        /\ AcceptStateNext(HandleClientData(AcceptState, n))
        /\ UNCHANGED <<now, cb_log, slotVars, cfgVars, event, sig_pipe,
                       stop_server, run, stop_, alarm_, actor_model_, work_queue_,
                       worker, loop, timeout>>

InitAccept ==
    /\ InitTimerVars
    /\ SlotVarsStart(0, {})
    /\ m_user_count \in {0, kMaxFd - 1}
    /\ SrvVarsStart(0)
    /\ \E listen_mode \in {0, 1} : CtlVarsStart(listen_mode)

NextAccept == L_Listen \/ L_Hangup \/ A_Alarm \/ L_Tick

SpecAccept == InitAccept /\ [][NextAccept]_vars

(***************************************************************************)
(* SpecStop: the server from start to shutdown.  Signals reach the loop    *)
(* through the pipe: SignalHandler sends the signal number as one byte,    *)
(* HandleSignal receives what the pipe holds.  EventLoop is followed from  *)
(* the while test through epoll_wait, the batch of events and the tick to  *)
(* its return; then ~ThreadPool sets stop_ and the workers leave Run.      *)
(* A worker that is idle when stop_ is set sits in queue_cond_.wait and is *)
(* woken by notify_all ("woken"); a worker that becomes idle afterwards is *)
(* at the while test with stop_ set.                                       *)
(***************************************************************************)
Signals == {"SIGALRM", "SIGTERM"}

Pending(sig) == \E i \in 1..Len(sig_pipe) : sig_pipe[i] = sig

\* A faulty HandleSignal: the SIGTERM case is missing.
HandleSignalNoTerm(signals, flags) ==
    [timeout     |-> flags.timeout
                       \/ \E i \in 1..Len(signals) : signals[i] = "SIGALRM",
     stop_server |-> flags.stop_server]

\* WebServer::HandleSignal on the bytes recv returned: the two flags after
\* its for loop.
HandleSignal(signals, flags) ==
    [timeout     |-> flags.timeout
                       \/ \E i \in 1..Len(signals) : signals[i] = "SIGALRM",
     stop_server |-> flags.stop_server
                       \/ \E i \in 1..Len(signals) : signals[i] = "SIGTERM"]

\* TimerUtils::SignalHandler: one byte into the pipe.  SIGALRM is raised
\* when the alarm clock runs out, which leaves no alarm pending.
SignalHandler(sig) ==
    /\ Len(sig_pipe) < MaxPipe
    /\ run # "done"
    /\ sig = "SIGALRM" => alarm_ > 0 /\ now < MaxAlarms * kTimeSlot
    /\ now' = IF sig = "SIGALRM" THEN now + alarm_ ELSE now
    /\ alarm_' = IF sig = "SIGALRM" THEN 0 ELSE alarm_
    /\ sig_pipe' = Append(sig_pipe, sig)
    /\ loop_touch' = {}
    /\ UNCHANGED <<timer_list_, heap, cb_log, allocated, connVars,
                   cfgVars, event, refused, stop_server, run, stop_,
                   actor_model_, kernel, users_, users_timer_,
                   work_queue_, worker, loop, timeout>>

S_Signal == \E sig \in Signals : SignalHandler(sig)

\* The alarm clock runs out.
S_Alarm == SignalHandler("SIGALRM")

\* EventLoop: while (!stop_server) and epoll_wait returning.
L_Wait ==
    /\ run = "wait"
    /\ ~stop_server
    /\ run' = "batch"
    /\ loop_touch' = {}
    /\ UNCHANGED <<timerVars, connVars, cfgVars, event, refused, alarm_,
                   sig_pipe, stop_server, stop_, actor_model_, kernel, users_,
                   users_timer_, work_queue_, worker, loop, timeout>>

\* EventLoop on pipe_fd_[0] with EPOLLIN: HandleSignal.
L_Signal ==
    /\ run = "batch"
    /\ loop.pc = "wait"
    /\ sig_pipe # <<>>
    /\ sig_pipe' = <<>>
    /\ LET flags == HandleSignal(sig_pipe, [timeout |-> timeout,
                                            stop_server |-> stop_server])
       IN  /\ timeout' = flags.timeout
           /\ stop_server' = flags.stop_server
    /\ loop_touch' = {}
    /\ UNCHANGED <<timerVars, connVars, cfgVars, event, refused, run,
                   stop_, alarm_, actor_model_, kernel, users_, users_timer_,
                   work_queue_, worker, loop>>

\* EventLoop behind the for loop: if timeout is set TimerUtils::HandleTimer,
\* that is the tick and alarm(timeslot_); then back to the while test.
L_EndBatch ==
    /\ run = "batch"
    /\ loop.pc = "wait"
    /\ run' = "wait"
    /\ IF timeout
       THEN TickBody
       ELSE /\ loop_touch' = {}
            /\ UNCHANGED <<timerVars, connVars, actor_model_, kernel, users_,
                           users_timer_, work_queue_, worker, loop, timeout>>
    /\ alarm_' = IF timeout THEN Alarm(kTimeSlot) ELSE alarm_
    /\ UNCHANGED <<cfgVars, event, refused, sig_pipe, stop_server,
                   stop_>>

\* EventLoop: while (!stop_server) is false, the function returns.
L_Exit ==
    /\ run = "wait"
    /\ stop_server
    /\ run' = "done"
    /\ loop_touch' = {}
    /\ UNCHANGED <<timerVars, connVars, cfgVars, event, refused, alarm_,
                   sig_pipe, stop_server, stop_, actor_model_, kernel, users_,
                   users_timer_, work_queue_, worker, loop, timeout>>

\* ~ThreadPool once the server object goes: stop_ = true, notify_all.
P_Stop ==
    /\ run = "done"
    /\ ~stop_
    /\ stop_' = TRUE
    /\ worker' = [w \in Workers |->
           IF worker[w].pc = "idle"
           THEN [worker[w] EXCEPT !.pc = "woken"] ELSE worker[w]]
    /\ loop_touch' = {}
    /\ UNCHANGED <<timerVars, connVars, cfgVars, event, refused, alarm_,
                   sig_pipe, stop_server, run, actor_model_, kernel, users_,
                   users_timer_, work_queue_, loop, timeout>>

\* Run: the wait ends with stop_ set and the queue not empty.
W_TakeWoken == \E w \in Workers : worker[w].pc = "woken" /\ Take(w)

\* Run: while (!stop_) is false behind an item, or the wait ends with stop_
\* set and the queue empty; the thread returns.
W_Exit ==
    \E w \in Workers :
        /\ \/ worker[w].pc = "idle" /\ stop_
           \/ worker[w].pc = "woken" /\ work_queue_ = <<>>
        /\ worker' = [worker EXCEPT ![w].pc = "exited"]
        /\ loop_touch' = {}
        /\ UNCHANGED <<timerVars, connVars, ctlVars, actor_model_, kernel,
                       users_, users_timer_, work_queue_, loop, timeout>>

\* The events of one batch.
E_Accept(limit) == run = "batch" /\ L_Accept /\ allocated' < limit
E_Hangup == run = "batch" /\ L_Hangup
E_Read == run = "batch" /\ L_Read
E_Write == run = "batch" /\ L_Write
\* Run's loop while the pool is not stopped.
W_TakeRunning == ~stop_ /\ W_Take

StopStep(limit) ==
    \/ S_Signal
    \/ L_Wait
    \/ L_Signal
    \/ L_EndBatch
    \/ L_Exit
    \/ P_Stop
    \/ W_TakeWoken
    \/ W_Exit
    \/ E_Accept(limit)
    \/ E_Hangup
    \/ E_Read
    \/ E_Write
    \/ L_Spin
    \/ W_TakeRunning
    \/ W_ReactorRead
    \/ W_ReactorWrite
    \/ W_Flag
    \/ W_Process

\* SpecStop follows the runs that accept fewer than MaxTimers connections.
NextStop == StopStep(MaxTimers)

SpecStop == Init /\ [][NextStop]_vars

\* The threads scheduled: the loop thread runs, every batch ends, the
\* level-triggered pipe is reported in every batch while it holds bytes,
\* and the workers run.  FairStop follows the runs that accept fewer than
\* MaxTimers - 1 connections.
NextStopFair == StopStep(MaxTimers - 1)

FairStop ==
    /\ Init
    /\ [][NextStopFair]_vars
    /\ WF_vars(L_Wait)
    /\ SF_vars(L_Signal)
    /\ SF_vars(L_EndBatch)
    /\ WF_vars(L_Exit)
    /\ WF_vars(L_Spin)
    /\ WF_vars(W_TakeRunning)
    /\ WF_vars(W_TakeWoken)
    /\ WF_vars(W_ReactorRead)
    /\ WF_vars(W_ReactorWrite)
    /\ WF_vars(W_Flag)
    /\ WF_vars(W_Process)

(***************************************************************************)
(* SpecPool: the pool with PoolThreads workers and the loop thread handing *)
(* it work, all of them scheduled.  No alarm runs out.                     *)
(***************************************************************************)
InitPool ==
    /\ InitTimerVars
    /\ ConnVarsStart(0, {})
    /\ \E model \in {0, 1} : PoolStart(model, PoolThreads)
    /\ CtlVarsStart(0)

NextPool ==
    \/ L_Accept /\ allocated' < MaxTimers
    \/ L_Hangup
    \/ L_Read
    \/ L_Write
    \/ L_Spin
    \/ W_Take
    \/ W_ReactorRead
    \/ W_ReactorWrite
    \/ W_Flag
    \/ W_Process

SpecPool ==
    /\ InitPool
    /\ [][NextPool]_vars
    /\ WF_vars(L_Spin)
    /\ WF_vars(W_Take)
    /\ WF_vars(W_ReactorRead)
    /\ WF_vars(W_ReactorWrite)
    /\ WF_vars(W_Flag)
    /\ WF_vars(W_Process)

(***************************************************************************)
(* SpecSql: ConnectionPool with MaxCallers threads in GetConnection and    *)
(* ReleaseConnection and one thread in DestroyPool.  A thread releases the *)
(* connection GetConnection gave it, as ConnectionRAII does.  mutex_ is    *)
(* taken and given back as the code does; cond_.wait evaluates its         *)
(* predicate under the mutex and gives the mutex back as it blocks, and    *)
(* may return without a notification.  is_destroyed_ is atomic and         *)
(* DestroyPool stores it before it takes the mutex.                        *)
(***************************************************************************)
otherVars == <<timerVars, connVars, srvVars, listen_trigger_mode_, refused,
               sig_pipe, stop_server, run, stop_, alarm_, event, regVars>>

Blocked == {c \in Callers : caller[c].pc = "blocked"}

\* GetConnection: "if (is_destroyed_) return nullptr;", else on to the lock.
GetEnter(c) ==
    /\ caller[c].pc = "out"
    /\ caller[c].conn = 0
    /\ caller' = [caller EXCEPT ![c] =
           IF is_destroyed_
           THEN [pc |-> "out", conn |-> 0, ret |-> "nullptr"]
           ELSE [pc |-> "lock", conn |-> 0, ret |-> "none"]]
    /\ UNCHANGED <<conn_list_, free_conn_count_, cur_conn_count_, mutex_,
                   destroyer, is_destroyed_, otherVars>>

\* GetConnection: unique_lock's constructor, or cond_.wait taking the
\* mutex again once woken.
GetLock(c) ==
    /\ caller[c].pc = "lock"
    /\ mutex_ = 0
    /\ mutex_' = c
    /\ caller' = [caller EXCEPT ![c].pc = "wait"]
    /\ UNCHANGED <<conn_list_, free_conn_count_, cur_conn_count_,
                   destroyer, is_destroyed_, otherVars>>

\* cond_.wait: the predicate !conn_list_.empty() || is_destroyed_.
GetWait(c) ==
    /\ caller[c].pc = "wait"
    /\ caller' = [caller EXCEPT ![c].pc =
           IF conn_list_ # <<>> \/ is_destroyed_ THEN "take" ELSE "block"]
    /\ UNCHANGED <<conn_list_, free_conn_count_, cur_conn_count_, mutex_,
                   destroyer, is_destroyed_, otherVars>>

\* cond_.wait with the predicate false: the mutex is given back and the
\* thread blocks, in one step.
GetBlock(c) ==
    /\ caller[c].pc = "block"
    /\ mutex_' = 0
    /\ caller' = [caller EXCEPT ![c].pc = "blocked"]
    /\ UNCHANGED <<conn_list_, free_conn_count_, cur_conn_count_,
                   destroyer, is_destroyed_, otherVars>>

\* A faulty GetConnection that leaves the connection in the list.
GetTakeNoPop(c) ==
    /\ caller[c].pc = "take"
    /\ mutex_' = 0
    /\ IF is_destroyed_
       THEN /\ caller' = [caller EXCEPT ![c] =
                   [pc |-> "out", conn |-> 0, ret |-> "nullptr"]]
            /\ UNCHANGED <<conn_list_, free_conn_count_, cur_conn_count_>>
       ELSE /\ caller' = [caller EXCEPT ![c] =
                   [pc |-> "out", conn |-> Head(conn_list_), ret |-> "conn"]]
            /\ free_conn_count_' = free_conn_count_ - 1
            /\ cur_conn_count_' = cur_conn_count_ + 1
            /\ UNCHANGED conn_list_
    /\ UNCHANGED <<destroyer, is_destroyed_, otherVars>>

\* GetConnection behind the wait: nullptr if the pool is destroyed, else
\* the front of the list, the two counts, and the mutex is given back.
GetTake(c) ==
    /\ caller[c].pc = "take"
    /\ mutex_' = 0
    /\ IF is_destroyed_
       THEN /\ caller' = [caller EXCEPT ![c] =
                   [pc |-> "out", conn |-> 0, ret |-> "nullptr"]]
            /\ UNCHANGED <<conn_list_, free_conn_count_, cur_conn_count_>>
       ELSE /\ caller' = [caller EXCEPT ![c] =
                   [pc |-> "out", conn |-> Head(conn_list_), ret |-> "conn"]]
            /\ conn_list_' = Tail(conn_list_)
            /\ free_conn_count_' = free_conn_count_ - 1
            /\ cur_conn_count_' = cur_conn_count_ + 1
    /\ UNCHANGED <<destroyer, is_destroyed_, otherVars>>

\* ReleaseConnection(conn) with the connection the thread holds: the block
\* under lock_guard.
Release(c) ==
    /\ caller[c].pc = "out"
    /\ caller[c].conn # 0
    /\ mutex_ = 0
    /\ conn_list_' = Append(conn_list_, caller[c].conn)
    /\ free_conn_count_' = free_conn_count_ + 1
    /\ cur_conn_count_' = cur_conn_count_ - 1
    /\ caller' = [caller EXCEPT ![c] = [pc |-> "notify", conn |-> 0, ret |-> "none"]]
    /\ UNCHANGED <<mutex_, destroyer, is_destroyed_, otherVars>>

\* ReleaseConnection: cond_.notify_one() wakes one blocked thread, if any.
ReleaseNotify(c) ==
    /\ caller[c].pc = "notify"
    /\ \/ /\ Blocked = {}
          /\ caller' = [caller EXCEPT ![c].pc = "out"]
       \/ \E b \in Blocked :
             caller' = [caller EXCEPT ![c].pc = "out", ![b].pc = "lock"]
    /\ UNCHANGED <<conn_list_, free_conn_count_, cur_conn_count_, mutex_,
                   destroyer, is_destroyed_, otherVars>>

\* cond_.wait returns from its block without a notification.
Spurious(c) ==
    /\ caller[c].pc = "blocked"
    /\ caller' = [caller EXCEPT ![c].pc = "lock"]
    /\ UNCHANGED <<conn_list_, free_conn_count_, cur_conn_count_, mutex_,
                   destroyer, is_destroyed_, otherVars>>

Q_GetEnter == \E c \in Callers : GetEnter(c)
Q_GetLock == \E c \in Callers : GetLock(c)
Q_GetWait == \E c \in Callers : GetWait(c)
Q_GetBlock == \E c \in Callers : GetBlock(c)
Q_GetTake == \E c \in Callers : GetTake(c)
Q_Release == \E c \in Callers : Release(c)
Q_ReleaseNotify == \E c \in Callers : ReleaseNotify(c)
Q_Spurious == \E c \in Callers : Spurious(c)

\* DestroyPool: is_destroyed_ = true.
Q_Destroy ==
    /\ destroyer = "idle"
    /\ ~is_destroyed_
    /\ is_destroyed_' = TRUE
    /\ destroyer' = "lock"
    /\ UNCHANGED <<conn_list_, free_conn_count_, cur_conn_count_, mutex_,
                   caller, otherVars>>

\* DestroyPool: the block under lock_guard.
Q_DestroyClear ==
    /\ destroyer = "lock"
    /\ mutex_ = 0
    /\ IF conn_list_ # <<>>
       THEN /\ cur_conn_count_' = 0
            /\ free_conn_count_' = 0
            /\ conn_list_' = <<>>
       ELSE UNCHANGED <<conn_list_, free_conn_count_, cur_conn_count_>>
    /\ destroyer' = "notify"
    /\ UNCHANGED <<mutex_, caller, is_destroyed_, otherVars>>

\* A faulty DestroyPool that wakes nobody.
DestroyNotifyNone == caller

\* DestroyPool: cond_.notify_all() wakes every blocked thread.
DestroyNotify ==
    [c \in Callers |->
        IF c \in Blocked THEN [caller[c] EXCEPT !.pc = "lock"] ELSE caller[c]]

Q_DestroyNotify ==
    /\ destroyer = "notify"
    /\ caller' = DestroyNotify
    /\ destroyer' = "done"
    /\ UNCHANGED <<conn_list_, free_conn_count_, cur_conn_count_, mutex_,
                   is_destroyed_, otherVars>>

NextSql ==
    \/ Q_GetEnter
    \/ Q_GetLock
    \/ Q_GetWait
    \/ Q_GetBlock
    \/ Q_GetTake
    \/ Q_Release
    \/ Q_ReleaseNotify
    \/ Q_Spurious
    \/ Q_Destroy
    \/ Q_DestroyClear
    \/ Q_DestroyNotify

\* The threads scheduled: a thread that holds the mutex goes on, a thread
\* that asks for the mutex gets it in the end, DestroyPool goes on.  No
\* thread has to call GetConnection or ReleaseConnection, and no wait has
\* to end without a notification.
SpecSql ==
    /\ Init
    /\ [][NextSql]_vars
    /\ \A c \in Callers :
          /\ SF_vars(GetLock(c))
          /\ WF_vars(GetWait(c))
          /\ WF_vars(GetBlock(c))
          /\ WF_vars(GetTake(c))
          /\ WF_vars(ReleaseNotify(c))
    /\ SF_vars(Q_DestroyClear)
    /\ WF_vars(Q_DestroyNotify)

(***************************************************************************)
(* SpecReg: MaxRegistrants workers, each in process() on a POST to /3,     *)
(* in the registration branch of DoRequest: users.find, the lock_guard on  *)
(* users_mutex, mysql_query and users.insert.  users is a std::map, which  *)
(* a thread may not read while another one changes it: a find that runs    *)
(* while another thread is under the lock can give either answer.          *)
(***************************************************************************)
RegNames == {UserA, <<"b">>}

RegPasswords == {PwdP, <<"q">>}

regFrame == <<timerVars, conn, conn_trigger_mode_, sock_open, epoll_ev, stream,
              rx, out, cpc, req, last, accepts, short_writes, segments,
              m_user_count, srvVars, listen_trigger_mode_, is_destroyed_,
              sqlVars, refused, sig_pipe, stop_server, run, stop_, alarm_,
              event>>

\* DoRequest has read the name and the password out of string_.
R_Form ==
    \E t \in Registrants, name \in RegNames, password \in RegPasswords :
        /\ reg[t].pc = "idle"
        /\ reg' = [reg EXCEPT ![t] = [pc |-> "find", name |-> name,
                       password |-> password, query |-> FALSE, url |-> <<>>]]
        /\ UNCHANGED <<users, db, users_mutex, regFrame>>

\* "if (users.find(name) == users.end())", without users_mutex.
R_Find ==
    \E t \in Registrants, absent \in BOOLEAN :
        /\ reg[t].pc = "find"
        /\ users_mutex = 0 => absent = ~MapHas(users, reg[t].name)
        /\ reg' = [reg EXCEPT ![t] =
               IF absent THEN [@ EXCEPT !.pc = "lock"]
               ELSE [@ EXCEPT !.pc = "done", !.url = Lit.registerError_html]]
        /\ UNCHANGED <<users, db, users_mutex, regFrame>>

\* std::lock_guard<std::mutex> lock(users_mutex)
R_Lock ==
    \E t \in Registrants :
        /\ reg[t].pc = "lock"
        /\ users_mutex = 0
        /\ users_mutex' = t
        /\ reg' = [reg EXCEPT ![t].pc = "query"]
        /\ UNCHANGED <<users, db, regFrame>>

\* mysql_query(mysql, sql_insert), users.insert, strcpy(url_, ...) and the
\* end of the lock_guard's scope.
R_Query ==
    \E t \in Registrants, res \in {0, 1} :
        /\ reg[t].pc = "query"
        /\ db' = IF res = 0 THEN db \cup {<<reg[t].name, reg[t].password>>}
                 ELSE db
        /\ users' = MapInsert(users, reg[t].name, reg[t].password)
        /\ reg' = [reg EXCEPT ![t].pc = "done", ![t].query = TRUE,
                       ![t].url = IF res = 0 THEN Lit.log_html
                                  ELSE Lit.registerError_html]
        /\ users_mutex' = 0
        /\ UNCHANGED regFrame

NextReg == R_Form \/ R_Find \/ R_Lock \/ R_Query

SpecReg == Init /\ [][NextReg]_vars

(***************************************************************************)
(* FairJoin: SpecStop with queue_cond_.wait of Run in its steps.  A worker *)
(* at "while (!stop_)" with the queue empty takes queue_mutex_ and finds   *)
(* the predicate of the wait false ("about"), then gives the mutex back    *)
(* and blocks ("asleep").  Append notifies under no lock but pushes under  *)
(* queue_mutex_, so a blocked worker is woken for a queued item.           *)
(* ~ThreadPool stores stop_ and calls notify_all without queue_mutex_: it  *)
(* wakes the workers that are blocked at that moment.  A wait may also     *)
(* return without a notification; nothing makes it do so.                  *)
(***************************************************************************)
\* Run: while (!stop_) holds, the lock is taken and the predicate
\* "stop_ || !work_queue_.empty()" is false.
W_Wait ==
    \E w \in Workers :
        /\ worker[w].pc = "idle"
        /\ ~stop_
        /\ work_queue_ = <<>>
        /\ worker' = [worker EXCEPT ![w].pc = "about"]
        /\ loop_touch' = {}
        /\ UNCHANGED <<timerVars, connVars, ctlVars, actor_model_, kernel,
                       users_, users_timer_, work_queue_, loop, timeout>>

\* queue_cond_.wait gives the mutex back and blocks.
W_Block ==
    \E w \in Workers :
        /\ worker[w].pc = "about"
        /\ worker' = [worker EXCEPT ![w].pc = "asleep"]
        /\ loop_touch' = {}
        /\ UNCHANGED <<timerVars, connVars, ctlVars, actor_model_, kernel,
                       users_, users_timer_, work_queue_, loop, timeout>>

\* The wait ends on Append's notify_one and the worker takes the item.
W_Notified == \E w \in Workers : worker[w].pc = "asleep" /\ Take(w)

\* The wait returns without a notification and finds stop_ set.
W_Spurious ==
    \E w \in Workers :
        /\ worker[w].pc = "asleep"
        /\ stop_
        /\ worker' = [worker EXCEPT ![w].pc = "woken"]
        /\ loop_touch' = {}
        /\ UNCHANGED <<timerVars, connVars, ctlVars, actor_model_, kernel,
                       users_, users_timer_, work_queue_, loop, timeout>>

\* ~ThreadPool: stop_ = true, then notify_all on the workers that are
\* blocked in the wait.
P_StopNotify ==
    /\ run = "done"
    /\ ~stop_
    /\ stop_' = TRUE
    /\ worker' = [w \in Workers |->
           IF worker[w].pc = "asleep"
           THEN [worker[w] EXCEPT !.pc = "woken"] ELSE worker[w]]
    /\ loop_touch' = {}
    /\ UNCHANGED <<timerVars, connVars, cfgVars, event, refused, alarm_,
                   sig_pipe, stop_server, run, actor_model_, kernel, users_,
                   users_timer_, work_queue_, loop, timeout>>

NextJoin ==
    \/ S_Signal
    \/ L_Wait
    \/ L_Signal
    \/ L_EndBatch
    \/ L_Exit
    \/ P_StopNotify
    \/ W_TakeWoken
    \/ W_Exit
    \/ E_Accept(MaxTimers - 1)
    \/ E_Hangup
    \/ E_Read
    \/ E_Write
    \/ L_Spin
    \/ W_TakeRunning
    \/ W_Wait
    \/ W_Block
    \/ W_Notified
    \/ W_Spurious
    \/ W_ReactorRead
    \/ W_ReactorWrite
    \/ W_Flag
    \/ W_Process

\* The threads scheduled as in FairStop, the destructor's thread too; a
\* worker that can go on in Run does.
FairJoin ==
    /\ Init
    /\ [][NextJoin]_vars
    /\ WF_vars(L_Wait)
    /\ SF_vars(L_Signal)
    /\ SF_vars(L_EndBatch)
    /\ WF_vars(L_Exit)
    /\ WF_vars(L_Spin)
    /\ WF_vars(P_StopNotify)
    /\ WF_vars(W_TakeRunning)
    /\ WF_vars(W_TakeWoken)
    /\ WF_vars(W_Exit)
    /\ WF_vars(W_Wait)
    /\ WF_vars(W_Block)
    /\ WF_vars(W_Notified)
    /\ WF_vars(W_ReactorRead)
    /\ WF_vars(W_ReactorWrite)
    /\ WF_vars(W_Flag)
    /\ WF_vars(W_Process)

\* FairStop with the kernel's clock running: a pending alarm runs out.
FairAlarm ==
    /\ Init
    /\ [][NextStopFair]_vars
    /\ WF_vars(L_Wait)
    /\ SF_vars(L_Signal)
    /\ SF_vars(L_EndBatch)
    /\ WF_vars(L_Exit)
    /\ WF_vars(L_Spin)
    /\ WF_vars(W_TakeRunning)
    /\ WF_vars(W_TakeWoken)
    /\ WF_vars(W_ReactorRead)
    /\ WF_vars(W_ReactorWrite)
    /\ WF_vars(W_Flag)
    /\ WF_vars(W_Process)
    /\ SF_vars(S_Alarm)

(***************************************************************************)
(* SpecEvent: EventLoop with each ready event as epoll_wait reports it, a  *)
(* descriptor with a set of event flags, and the if / else if chain of     *)
(* the for loop choosing the handler.                                      *)
(***************************************************************************)
EventFlags == {"EPOLLIN", "EPOLLOUT", "EPOLLRDHUP", "EPOLLHUP", "EPOLLERR"}

HangupFlags == {"EPOLLRDHUP", "EPOLLHUP", "EPOLLERR"}

\* The descriptors registered with epoll_fd_: listen_fd_, pipe_fd_[0] and
\* the connections.
FdKinds == {"listen_fd_", "pipe_fd_", "connection"}

\* A faulty chain: the EPOLLIN and EPOLLOUT tests in front of the hang-up
\* test.
BranchDataFirst(kind, events) ==
    IF kind = "listen_fd_" THEN "HandleClientData"
    ELSE IF kind = "pipe_fd_" /\ "EPOLLIN" \in events THEN "HandleSignal"
    ELSE IF "EPOLLIN" \in events THEN "HandleRead"
    ELSE IF "EPOLLOUT" \in events THEN "HandleWrite"
    ELSE IF events \cap HangupFlags # {} THEN "HandleTimer"
    ELSE "none"

\* The if / else if chain of the for loop: the handler that runs for an
\* event with these flags on a descriptor of this kind.
Branch(kind, events) ==
    IF kind = "listen_fd_" THEN "HandleClientData"
    ELSE IF events \cap HangupFlags # {} THEN "HandleTimer"
    ELSE IF kind = "pipe_fd_" /\ "EPOLLIN" \in events THEN "HandleSignal"
    ELSE IF "EPOLLIN" \in events THEN "HandleRead"
    ELSE IF "EPOLLOUT" \in events THEN "HandleWrite"
    ELSE "none"

\* What epoll_wait can report for a connection: the event ModifyFd / AddFd
\* enabled (EPOLLIN or EPOLLOUT, with EPOLLRDHUP), and EPOLLHUP and EPOLLERR,
\* which are reported whether asked for or not; at least one flag.
ReadyEvents(sockfd) ==
    SUBSET ({"EPOLL" \o kernel[sockfd].ev} \cup HangupFlags) \ {{}}

\* One iteration of the for loop for a connection's event.
Dispatch(sockfd, events) ==
    \/ Branch("connection", events) = "HandleTimer" /\ HandleHangup(sockfd)
    \/ Branch("connection", events) = "HandleRead" /\ HandleRead(sockfd)
    \/ Branch("connection", events) = "HandleWrite" /\ HandleWrite(sockfd)

EventOn(sockfd, events) ==
    /\ loop.pc = "wait"
    /\ Armed(sockfd)
    /\ events \in ReadyEvents(sockfd)
    /\ event' = [fd |-> sockfd, events |-> events,
                 expire |-> IF users_timer_[sockfd].timer = NullTimer THEN 0
                            ELSE heap[users_timer_[sockfd].timer].expire_time_]
    /\ Dispatch(sockfd, events)

E_Event ==
    \E sockfd \in Fds :
        /\ Armed(sockfd)
        /\ \E events \in ReadyEvents(sockfd) : EventOn(sockfd, events)

\* The listening socket is ready.
E_Listen ==
    /\ Branch("listen_fd_", {"EPOLLIN"}) = "HandleClientData"
    /\ L_Accept
    /\ allocated' < MaxTimers

\* SpecEvent follows the runs that accept fewer than MaxTimers connections.
NextEvent ==
    \/ E_Listen
    \/ E_Event
    \/ A_Alarm
    \/ L_Tick
    \/ L_Spin
    \/ W_Take
    \/ W_ReactorRead
    \/ W_ReactorWrite
    \/ W_Flag
    \/ W_Process

SpecEvent == Init /\ [][NextEvent]_vars

(***************************************************************************)
(* SpecDb: the server while ConnectionPool::DestroyPool may be called.     *)
(* ConnectionRAII in Run takes the handle GetConnection returns and        *)
(* process() follows it in the same statement sequence.                    *)
(***************************************************************************)
\* ConnectionPool::GetConnection with a free connection in the list.
GetConnection(destroyed) == IF destroyed THEN "nullptr" ELSE "conn"

\* ConnectionPool::DestroyPool.
D_DestroyPool ==
    /\ ~is_destroyed_
    /\ is_destroyed_' = TRUE
    /\ loop_touch' = {}
    /\ UNCHANGED <<timerVars, connVars, listen_trigger_mode_, sqlVars, regVars, event,
                   refused, alarm_, sig_pipe, stop_server, run, stop_, actor_model_, kernel,
                   users_, users_timer_, work_queue_, worker, loop, timeout>>

\* SpecDb follows the runs that accept fewer than MaxTimers connections.
NextDb == NextFair \/ D_DestroyPool

SpecDb == Init /\ [][NextDb]_vars

(***************************************************************************)
(* SpecTimer: the bare list, called as its contract allows: AddTimer on a  *)
(* fresh node, AdjustTimer on a listed node whose expiry was just raised,  *)
(* DeleteTimer on a listed node, Tick at any later time.                   *)
(***************************************************************************)
T_Add ==
    \E e \in 0..MaxExpire :
        /\ allocated < MaxTimers
        /\ allocated' = allocated + 1
        /\ LET t == allocated + 1
               H0 == [TheList EXCEPT !.mem[t] = NewTimerNode(e, t)]
           IN  SetList(ListAddTimer(H0, t))
        /\ UNCHANGED <<now, cb_log>>
        /\ UNCHANGED <<connVars, srvVars, ctlVars>>

T_Adjust ==
    \E t \in TimerIds, d \in 1..MaxExpire :
        /\ heap[t].alive
        /\ heap[t].expire_time_ + d <= MaxExpire
        /\ LET H0 == [TheList EXCEPT !.mem[t].expire_time_ = @ + d]
           IN  SetList(ListAdjustTimer(H0, t))
        /\ UNCHANGED <<now, cb_log, allocated>>
        /\ UNCHANGED <<connVars, srvVars, ctlVars>>

T_Delete ==
    \E t \in TimerIds :
        /\ heap[t].alive
        /\ SetList(ListDeleteTimer(TheList, t))
        /\ UNCHANGED <<now, cb_log, allocated>>
        /\ UNCHANGED <<connVars, srvVars, ctlVars>>

T_Tick ==
    \E t \in now..MaxNow :
        /\ now' = t
        /\ LET gone == TickExpired(TheList, timer_list_.head_, t)
           IN  cb_log' = cb_log \o
                   [i \in 1..Len(gone) |->
                       [timer |-> gone[i], user_data |-> heap[gone[i]].user_data_]]
        /\ SetList(ListTick(TheList, t))
        /\ UNCHANGED allocated
        /\ UNCHANGED <<connVars, srvVars, ctlVars>>

NextTimer == T_Add \/ T_Adjust \/ T_Delete \/ T_Tick

InitTimer ==
    InitTimerVars /\ ConnVarsStart(0, {}) /\ SrvVarsStart(0) /\ CtlVarsStart(0)

SpecTimer == InitTimer /\ [][NextTimer]_vars

\* The connection slot alone: the timer list stays empty.
InitConn ==
    InitTimerVars /\ InitConnVars /\ SrvVarsStart(0) /\ CtlVarsStart(0)

SpecConn == InitConn /\ [][NextConn]_vars

(***************************************************************************)
(* SpecLine: ParseLine alone, on one or two CRLF-terminated lines that     *)
(* recv delivers in pieces of any length.                                  *)
(***************************************************************************)
\* The bytes of a line's text.
LineBytes == {"a", ":"}

\* The texts of at most MaxLineLen bytes, each followed by CRLF.
Lines ==
    {text \o Lit.CRLF :
        text \in UNION {[1..n -> LineBytes] : n \in 0..MaxLineLen}}

\* What the client sends: one line, or two.
LineInputs == Lines \cup {l1 \o l2 : l1 \in Lines, l2 \in Lines}

\* The slot after accept and init(), the client about to send its lines.
InitLine ==
    /\ InitTimerVars /\ SrvVarsStart(0) /\ CtlVarsStart(0)
    /\ \E trigger_mode \in {0, 1}, input \in LineInputs :
         /\ conn = InitConnectionFd(DefaultConnection, SlotFd, trigger_mode)
         /\ conn_trigger_mode_ = trigger_mode
         /\ req = input /\ stream = input
    /\ db = {} /\ users = LoadUsers({})
    /\ sock_open = TRUE /\ epoll_ev = "IN"
    /\ rx = <<>> /\ out = <<>> /\ cpc = "idle" /\ last = NoOutcome
    /\ accepts = 1 /\ short_writes = 0 /\ segments = 0
    /\ m_user_count = 1

\* read_once() stores the next n bytes behind read_idx_.
N_Recv ==
    /\ stream # <<>>
    /\ \E n \in 1..Len(stream) :
         /\ conn' = ReadOnce(conn, SubSeq(stream, 1, n),
                             IF conn.trigger_mode_ = 0 THEN "data"
                             ELSE "again").c
         /\ stream' = SubSeq(stream, n + 1, Len(stream))
         /\ rx' = rx \o SubSeq(stream, 1, n)
    /\ segments' = segments + 1
    /\ UNCHANGED <<conn_trigger_mode_, users, db, sock_open, epoll_ev, out,
                   cpc, req, last, accepts, short_writes, m_user_count,
                   timerVars, srvVars, ctlVars>>

\* One call of ParseLine(); its return value is kept in last.line_status.
N_ParseLine ==
    /\ conn' = ParseLine(conn).c
    /\ last' = [last EXCEPT !.line_status = ParseLine(conn).status]
    /\ UNCHANGED <<conn_trigger_mode_, users, db, sock_open, epoll_ev, stream,
                   rx, out, cpc, req, accepts, short_writes, segments,
                   m_user_count, timerVars, srvVars, ctlVars>>

NextLine == N_Recv \/ N_ParseLine

SpecLine == InitLine /\ [][NextLine]_vars

(***************************************************************************)
(* C4: after any sequence of AddTimer, AdjustTimer (after the expiry was   *)
(* increased), DeleteTimer and Tick, the list is sorted ascending by       *)
(* expiry from head to tail.                                               *)
(***************************************************************************)
TimerListSorted ==
    \A i \in 1..(Len(ListNodes) - 1) :
        heap[ListNodes[i]].expire_time_ <= heap[ListNodes[i + 1]].expire_time_

\* The case of C4: a Tick has removed one expired node, two nodes remain
\* listed with strictly ascending expiry, and the node allocated later
\* stands ahead of the one allocated earlier, which is the tail.
TimerListSortedWitness ==
    /\ Len(ListNodes) = 2
    /\ Len(cb_log) = 1
    /\ heap[ListNodes[1]].expire_time_ < heap[ListNodes[2]].expire_time_
    /\ ListNodes[1] > ListNodes[2]
    /\ timer_list_.tail_ = ListNodes[2]


\* t is in the list behind the step.
ListedAfter(t) == \E i \in 1..Len(ListNodes') : ListNodes'[i] = t

\* The entries Tick has added to the callback log in this step.
TickCalls == SubSeq(cb_log', Len(cb_log) + 1, Len(cb_log'))

\* C32: a Tick at time now' leaves listed exactly the nodes whose expiry is
\* later than now'; every node it removes had an expiry of at most now', is
\* freed, and has had its callback invoked once, with the node's own
\* user_data_; no other callback is invoked and no other node is freed.
TickRemovesExpired ==
    [][T_Tick
         => /\ \A t \in TimerIds :
                  ListedAfter(t) <=> (InList(t) /\ heap[t].expire_time_ > now')
            /\ \A t \in TimerIds :
                  (InList(t) /\ ~ListedAfter(t))
                     => /\ heap[t].expire_time_ <= now'
                        /\ ~heap'[t].alive
                        /\ Cardinality({i \in 1..Len(TickCalls) :
                                           TickCalls[i].timer = t}) = 1
                        /\ \A i \in 1..Len(TickCalls) :
                              TickCalls[i].timer = t
                                 => TickCalls[i].user_data = heap[t].user_data_
            /\ \A i \in 1..Len(TickCalls) :
                  InList(TickCalls[i].timer) /\ ~ListedAfter(TickCalls[i].timer)
            /\ \A t \in TimerIds :
                  (heap[t].alive /\ ~heap'[t].alive) => InList(t)
            /\ SubSeq(cb_log', 1, Len(cb_log)) = cb_log]_vars

\* The case of C32: two nodes have expired and had their callbacks invoked,
\* each once with its own user_data_, and are freed; the third, which
\* expires later than now, is the whole list.
TickRemovesExpiredWitness ==
    /\ Len(cb_log) = 2
    /\ cb_log[1].timer # cb_log[2].timer
    /\ \A i \in 1..2 : /\ ~heap[cb_log[i].timer].alive
                        /\ cb_log[i].user_data = cb_log[i].timer
    /\ Len(ListNodes) = 1
    /\ heap[ListNodes[1]].expire_time_ > now
    /\ timer_list_.head_ = timer_list_.tail_

(***************************************************************************)
(* Properties of one connection, under SpecConn.                           *)
(***************************************************************************)
HasPrefix(s, p) == Len(s) >= Len(p) /\ SubSeq(s, 1, Len(p)) = p

HasSuffix(s, p) == Len(s) >= Len(p) /\ SubSeq(s, Len(s) - Len(p) + 1, Len(s)) = p

\* The status line "HTTP/1.1 <status> <title>\r\n".
StatusLine(status, title) ==
    Lit.HttpVersion \o <<" ">> \o DecStr(status) \o <<" ">> \o title \o Lit.CRLF

\* What the parser extracts from request r when one read delivers all of it.
OneRead(r) ==
    ParsedFields(ProcessRead([InitConnection(DefaultConnection) EXCEPT
                                 !.read_buf_ = r, !.read_idx_ = Len(r)]).c)

\* C2: for a valid request, however its bytes are sliced across the
\* read_once()/process() calls, once all of them have been received and
\* processed the parser has reported the request complete, with the method,
\* URL, keep-alive flag, content-length and body that one read of the whole
\* request yields.
SlicingInvariant ==
    (req \in ValidRequests /\ rx = req /\ cpc = "idle" /\
     (sock_open \/ last.parsed # <<>>))
        => last.parsed = <<OneRead(req)>>

\* C5: in every reachable state, also after a recv that returned 0 or -1,
\* 0 <= checked_idx_ <= read_idx_ <= kReadBufferSize.
ReadIndicesInBounds ==
    /\ 0 <= conn.checked_idx_
    /\ conn.checked_idx_ <= conn.read_idx_
    /\ conn.read_idx_ <= kReadBufferSize

\* C6: whenever bytes_to_send_ > 0, the lengths of the gather entries
\* handed to writev add up to bytes_to_send_.
IovCoversBytesToSend ==
    conn.bytes_to_send_ > 0 =>
        conn.iov_.len0 + (IF conn.iov_count_ = 2 THEN conn.iov_.len1 ELSE 0)
            = conn.bytes_to_send_

\* C7: the users cache maps a name to a password exactly when the table
\* holds that row: it was in the bootstrap load or its INSERT succeeded.
UsersCacheIsCommitted == users = LoadUsers(db)

\* C8: when parsing yields kBadRequest, a response is queued, what reaches
\* the client begins with the 400 status line, and the connection is closed
\* once the response, ending with the bad-request form, has been sent.
BadRequestAnswered400 ==
    (last.ret = "kBadRequest" /\ last.parsed = <<>>) =>
        /\ last.write_ret = "true"
        /\ Len(out) >= Len(StatusLine(400, Lit.kError400Title))
              => HasPrefix(out, StatusLine(400, Lit.kError400Title))
        /\ (cpc = "idle" /\ conn.bytes_to_send_ <= 0)
              => (~sock_open /\ HasSuffix(out, Lit.kError400Form))

\* C9: when stat fails (kNoResource), a response is queued, and what
\* reaches the client before the connection is closed is the 404 status
\* line and, last, the body of the not-found form.
NoResourceAnswered404 ==
    last.ret = "kNoResource" =>
        /\ last.write_ret = "true"
        /\ Len(out) >= Len(StatusLine(404, Lit.kError404Title))
              => HasPrefix(out, StatusLine(404, Lit.kError404Title))
        /\ (~sock_open /\ conn.bytes_to_send_ <= 0)
              => HasSuffix(out, Lit.kError404Form)

\* C10: when ParseLine reports kBad, ProcessRead's outcome is kBadRequest
\* and the connection is not re-armed for reading.
BadLineIsBadRequest ==
    last.line_status = "kBad" =>
        (last.ret = "kBadRequest" /\ epoll_ev # "IN")


\* C11: a request whose Content-Length exceeds what read_buf_ can hold is
\* rejected: once the header is parsed the outcome of process() is
\* kBadRequest and an error response is built, the request is not waited on.
OversizedIsBadRequest ==
    conn.content_length_ > kReadBufferSize =>
        (last.ret = "kBadRequest" /\ last.write_ret = "true")

(***************************************************************************)
(* Properties of the listener, under SpecAccept.                           *)
(***************************************************************************)
\* C22: a writev that completes a keep-alive response leaves the
\* connection's parser and emitter state equal to that of a freshly
\* accepted connection.
ParserEmitterState(c) ==
    [read_idx_ |-> c.read_idx_, checked_idx_ |-> c.checked_idx_,
     start_line_ |-> c.start_line_, check_state_ |-> c.check_state_,
     method_ |-> c.method_, url_ |-> c.url_,
     content_length_ |-> c.content_length_, linger_ |-> c.linger_,
     string_ |-> c.string_, write_idx_ |-> c.write_idx_, iov_ |-> c.iov_,
     iov_count_ |-> c.iov_count_, bytes_to_send_ |-> c.bytes_to_send_,
     bytes_have_send_ |-> c.bytes_have_send_,
     file_address_ |-> c.file_address_, cgi_ |-> c.cgi_,
     timer_flag |-> c.timer_flag, improv |-> c.improv, m_state |-> c.m_state]

KeepAliveReinitIsFresh ==
    [][(C_Writev /\ cpc' = "idle" /\ sock_open' /\ epoll_ev' = "IN") =>
          ParserEmitterState(conn') =
              ParserEmitterState(InitConnectionFd(DefaultConnection, SlotFd,
                                                  conn_trigger_mode_))]_vars

\* C24: from ProcessWrite's success until emission ends, bytes_have_send_
\* plus bytes_to_send_ is the total prepared: the header length, plus the
\* file size when the file is gathered as a second entry.
Emitting ==
    sock_open /\ (cpc = "writev" \/ (cpc = "idle" /\ epoll_ev = "OUT"))

PreparedTotal(c) ==
    c.write_idx_ + (IF c.iov_count_ = 2 THEN c.st_size ELSE 0)

EmissionTotalKept ==
    Emitting =>
        conn.bytes_have_send_ + conn.bytes_to_send_ = PreparedTotal(conn)

EmissionTotalKeptWitness ==
    /\ Emitting
    /\ conn.iov_count_ = 2
    /\ conn.bytes_have_send_ > 0
    /\ conn.bytes_to_send_ > 0
    /\ out # <<>>

FileRequestAnswered200 ==
    last.ret = "kFileRequest" =>
        /\ last.write_ret = "true"
        /\ Len(out) >= Len(StatusLine(200, Lit.kOk200Title))
              => HasPrefix(out, StatusLine(200, Lit.kOk200Title))

\* The order of the parser's states.
StateRank(check_state) ==
    CASE check_state = "kRequestLine" -> 0
      [] check_state = "kHeader" -> 1
      [] check_state = "kContent" -> 2

\* The bytes before index p of read_buf_ are the LF of a line end and an
\* empty line, all turned into NULs by ParseLine.
BlankLineBefore(c, p) ==
    p >= 3 /\ \A i \in 1..3 : Rd(c.read_buf_, p - i) = NUL

\* C27: check_state_ only moves kRequestLine -> kHeader -> kContent, and
\* goes back to kRequestLine only when init() starts the next request.  A
\* ProcessRead that enters kContent has consumed the blank line with a
\* content_length_ > 0; one that stays in kHeader behind the blank line has
\* content_length_ = 0 and reports the request complete; none reports the
\* request complete in kRequestLine.
ParserMovesForward ==
    [][/\ conn'.check_state_ # conn.check_state_
            => \/ C_Process /\ StateRank(conn'.check_state_)
                                 > StateRank(conn.check_state_)
               \/ (C_Write \/ C_Writev) /\ conn' = InitConnection(conn')
               \/ C_Accept
       /\ C_Process
            => LET r == ProcessRead(conn)
               IN  /\ StateRank(r.c.check_state_) >= StateRank(conn.check_state_)
                   /\ (conn.check_state_ # "kContent"
                         /\ r.c.check_state_ = "kContent")
                        => /\ r.c.content_length_ > 0
                           /\ BlankLineBefore(r.c, r.c.start_line_)
                   /\ (r.c.check_state_ = "kHeader"
                         /\ BlankLineBefore(r.c, r.c.checked_idx_))
                        => r.ret = "kGetRequest" /\ r.c.content_length_ = 0
                   /\ r.ret = "kGetRequest"
                        => \/ r.c.check_state_ = "kContent"
                           \/ /\ r.c.check_state_ = "kHeader"
                              /\ r.c.content_length_ = 0
                              /\ BlankLineBefore(r.c, r.c.checked_idx_)]_vars

\* The case of C27: a request with Content-Length: 17 whose body has not
\* arrived yet: the parser went through the request line and the headers,
\* entered kContent at the blank line and reported the request incomplete.
ParserMovesForwardWitness ==
    /\ sock_open /\ cpc = "idle"
    /\ req = Req.Login
    /\ conn.check_state_ = "kContent"
    /\ conn.content_length_ = 17
    /\ BlankLineBefore(conn, conn.start_line_)
    /\ last.ret = "kNoRequest"

\* The requests of the model that carry Connection: keep-alive.
KeepAliveRequests ==
    {Req.GetKeepAlive, Req.GetRootKeepAlive, Req.LoginKeepAlive}

\* p occurs in s.
Contains(s, p) ==
    \E i \in 0..(Len(s) - Len(p)) : SubSeq(s, i + 1, i + Len(p)) = p

\* The header line by which a response announces keep-alive.
KeepAliveLine == Lit.ConnectionHdr \o Lit.keepalive \o Lit.CRLF

\* C28: for a request that carries Connection: keep-alive, as the only or
\* as the second header, for the target / as for the others: linger_ is
\* true when ProcessRead hands the request to DoRequest, the response that
\* ProcessWrite queues holds "Connection:keep-alive", and so does every
\* response head that reaches the client.
KeepAliveHonoured ==
    /\ [](req \in KeepAliveRequests
            => /\ last.parsed # <<>> => last.parsed[1].linger
               /\ Contains(out, Lit.CRLF \o Lit.CRLF)
                    => Contains(out, KeepAliveLine))
    /\ [][(C_Process /\ req \in KeepAliveRequests
             /\ ProcessRead(conn).ret = "kGetRequest")
            => /\ ProcessRead(conn).c.linger_
               /\ last'.write_ret = "true"
                    => Contains(SubSeq(conn'.write_buf_, 1, conn'.write_idx_),
                                KeepAliveLine)]_vars

\* The case of C28: the keep-alive GET of / was parsed with its target
\* rewritten to /judge.html, its response has reached the client with the
\* keep-alive line, and the connection is open.
KeepAliveHonouredWitness ==
    /\ req = Req.GetRootKeepAlive
    /\ last.parsed # <<>>
    /\ last.parsed[1].url = <<"/">> \o Lit.judge
    /\ last.parsed[1].linger
    /\ Contains(out, KeepAliveLine)
    /\ sock_open /\ cpc = "idle" /\ conn.bytes_to_send_ = 0

\* The offsets just behind the LFs of the client's bytes that ParseLine
\* has not consumed yet.
LineEnds(c) == {i \in 1..Len(req) : req[i] = LF /\ i > c.checked_idx_}

\* The least element of a non-empty set of numbers.
Least(S) == CHOOSE x \in S : \A y \in S : x <= y

\* C29: on CRLF-terminated lines that arrive in pieces of any length, a
\* call of ParseLine returns kOk when, and only when, the LF of the line it
\* is in has been received, and then leaves checked_idx_ just behind that
\* LF; every other call returns kOpen and leaves checked_idx_ within the
\* received bytes and not behind the line's CR.  Since kOk moves checked_idx_
\* behind the LF, it is returned once for a line.
LineSplitAnywhere ==
    [][N_ParseLine
         => LET pl == ParseLine(conn)
                ends == LineEnds(conn)
            IN  IF ends # {} /\ conn.read_idx_ >= Least(ends)
                THEN /\ pl.status = "kOk"
                     /\ pl.c.checked_idx_ = Least(ends)
                ELSE /\ pl.status = "kOpen"
                     /\ pl.c.checked_idx_ <= pl.c.read_idx_
                     /\ ends # {} => pl.c.checked_idx_ <= Least(ends) - 2]_vars

\* The case of C29: a first line has been consumed, the second has arrived
\* up to its CR, the LF is still to come, and ParseLine has returned kOpen
\* with checked_idx_ on the CR.
LineSplitAnywhereWitness ==
    /\ last.line_status = "kOpen"
    /\ conn.checked_idx_ > 2
    /\ Rd(conn.read_buf_, conn.checked_idx_ - 2) = NUL
    /\ Rd(conn.read_buf_, conn.checked_idx_ - 1) = "a"
    /\ Rd(conn.read_buf_, conn.checked_idx_) = CR
    /\ conn.read_idx_ = conn.checked_idx_ + 1
    /\ stream = <<LF>>
    /\ segments >= 2

\* C12: when m_user_count is at or above kMaxFd as HandleClientData runs,
\* the accepted socket is sent the busy message and closed and is not
\* promoted: no slot is initialised, no timer added, nothing registered
\* with epoll, and the count stays as it was.
RefusedAtCap ==
    [][(L_Listen /\ m_user_count >= kMaxFd) =>
          /\ Len(refused') = Len(refused) + 1
          /\ SubSeq(refused', 1, Len(refused)) = refused
          /\ refused'[Len(refused')].sockfd \in Fds
          /\ refused'[Len(refused')].sent = BusyInfo
          /\ ~refused'[Len(refused')].open
          /\ UNCHANGED <<users_, users_timer_, timer_list_, heap, allocated,
                         kernel, m_user_count>>]_vars

\* The case of C12: the count stands at the cap with a promoted connection
\* open, and the next socket was refused with the busy message.
RefusedAtCapWitness ==
    /\ m_user_count = kMaxFd
    /\ \E f \in Fds : kernel[f].open
    /\ refused # <<>>
    /\ refused[1].sent = BusyInfo

(***************************************************************************)
(* Properties of the server, under Spec.                                   *)
(***************************************************************************)
\* One of three things is true of the slot.
ExactlyOne(a, b, c) == (a /\ ~b /\ ~c) \/ (~a /\ b /\ ~c) \/ (~a /\ ~b /\ c)

\* The loop thread is inside HandleRead / HandleWrite on the descriptor.
LoopHandles(f) == loop.pc = "spin" /\ loop.fd = f

\* C1: in both actor models at most one thread uses a connection slot: an
\* open connection the loop thread is not handling at the moment is exactly
\* one of armed in epoll, waiting in the worker queue, held by a worker;
\* and no step of the loop thread (inline I/O, the flags after the spin,
\* timer expiry, destruction, re-initialisation of the slot on accept)
\* touches a slot a worker holds.
OneThreadPerConnection ==
    /\ \A f \in loop_touch : ~Holds(f)
    /\ \A f \in Fds :
           (kernel[f].open /\ ~LoopHandles(f))
               => ExactlyOne(Armed(f), Queued(f), Holds(f))

\* The connection's timer is listed and its expiry has passed.
TimerDue(f) ==
    /\ users_timer_[f].timer # NullTimer
    /\ heap[users_timer_[f].timer].alive
    /\ heap[users_timer_[f].timer].expire_time_ <= now

\* The connection's timer is listed with its expiry still ahead.
TimerAhead(f) ==
    /\ users_timer_[f].timer # NullTimer
    /\ heap[users_timer_[f].timer].alive
    /\ heap[users_timer_[f].timer].expire_time_ > now

\* C13: an accepted connection whose timer has run out (no successful I/O
\* for 3 * kTimeSlot) is closed once SIGALRM has been delivered: from a state
\* where it is open, its expiry has passed and timeout is pending, its
\* descriptor gets closed, unless I/O on it moves the expiry ahead first.
IdleClosedByTick ==
    \A f \in Fds :
        (kernel[f].open /\ TimerDue(f) /\ timeout)
            ~> (~kernel[f].open \/ TimerAhead(f))

\* The case of C13: a tick has expired the timer of a connection; its
\* descriptor is closed, off epoll, and the count is back at 0.
IdleClosedByTickWitness ==
    /\ cb_log # <<>>
    /\ kernel[cb_log[1].user_data] = [open |-> FALSE, ev |-> "none"]
    /\ m_user_count = 0
    /\ ~timeout

\* C14: the queue never holds more than max_requests items; Append and
\* AppendProactor return false for an empty request pointer, and a
\* HandleRead or HandleWrite that runs while the queue holds max_requests
\* items gets false from the pool and leaves the queue as it was.
QueueWithinMaxRequests ==
    /\ [](/\ Len(work_queue_) <= MaxRequests
          /\ PoolAppend(NullRequest) = [ret |-> FALSE, queue |-> work_queue_])
    /\ [][\A f \in Fds :
             (PoolFull /\ (L_Read \/ L_Write) /\ loop_touch' = {f}) =>
                 (~PoolAppend(f).ret /\ work_queue_' = work_queue_)]_vars

QueueWithinMaxRequestsWitness ==
    /\ actor_model_ = 0
    /\ Len(work_queue_) = MaxRequests
    /\ \E f \in Fds :
           /\ loop_touch = {f}
           /\ kernel[f] = [open |-> TRUE, ev |-> "off"]
           /\ ~Queued(f)
           /\ ~Holds(f)

\* C15: in Proactor mode a connection that is open and whose one-shot
\* registration has fired is never left with nobody to serve it: it is in
\* the queue or a worker holds it.  A HandleRead that the full pool turned
\* away would have to close it or answer it.
RefusedWorkIsObservable ==
    \A f \in Fds :
        (actor_model_ = 0 /\ kernel[f] = [open |-> TRUE, ev |-> "off"]) =>
            (Queued(f) \/ Holds(f))

\* C16: in Reactor mode, from the moment a worker's read_once() or write()
\* has returned false until it has set timer_flag, the loop is still inside
\* the HandleRead / HandleWrite call for that connection; it has not taken
\* improv and gone back to epoll_wait without seeing timer_flag == 1.
LoopSeesTimerFlag ==
    \A w \in Workers :
        (actor_model_ = 1 /\ worker[w].pc = "flag") =>
            (loop.pc = "spin" /\ loop.fd = worker[w].fd)

\* C17: in Reactor mode, while a worker is inside process() for a
\* connection, the loop is still inside the HandleRead call for that
\* connection: improv is not set, and the loop does not go on to another
\* descriptor, before the unit of work is complete.
LoopWaitsForProcess ==
    \A w \in Workers :
        (actor_model_ = 1 /\ worker[w].pc = "process") =>
            (loop.pc = "spin" /\ loop.fd = worker[w].fd)

\* C18: destruction is complete on every path: a descriptor that has been
\* closed has no timer left in the list, and the connection count is the
\* number of open descriptors (decremented once per destruction).
TimersOf(f) ==
    {i \in 1..Len(ListNodes) : heap[ListNodes[i]].user_data_ = f}

DestructionTimerGone == \A f \in Fds : ~kernel[f].open => TimersOf(f) = {}

DestructionCountedOnce ==
    m_user_count = Cardinality({f \in Fds : kernel[f].open})

DestructionComplete == DestructionTimerGone /\ DestructionCountedOnce

\* C19: a SIGTERM byte in the pipe leads to EventLoop returning; once
\* stop_server is set epoll_wait is not called again, and the loop returns
\* with no tick left pending.
StopOnSigterm ==
    /\ Pending("SIGTERM") ~> run = "done"
    /\ [][(stop_server => ~L_Wait) /\ (L_Exit => ~timeout)]_vars

StopOnSigtermWitness ==
    /\ run = "done"
    /\ stop_server
    /\ sig_pipe = <<>>
    /\ cb_log # <<>>

\* C20: when every worker has left Run, no item is left in the queue.
QueueDrainedAtExit ==
    (\A w \in Workers : worker[w].pc = "exited") => work_queue_ = <<>>

\* C21: a worker whose ConnectionRAII got a null handle leaves the item
\* alone: the step that ends its process() stage re-arms nothing, closes
\* nothing and writes nothing to the slot.
NullHandleAbandons ==
    [][\A w \in Workers :
          (/\ GetConnection(is_destroyed_) = "nullptr"
           /\ worker[w].pc = "process"
           /\ worker'[w].pc # "process") =>
              UNCHANGED <<kernel, users_, m_user_count>>]_vars

\* C23: no step of a worker thread (taking an item, read_once(), write(),
\* setting timer_flag, process()) changes the timer list or a timer node.
WorkersLeaveTimers ==
    [][(\/ W_Take \/ W_ReactorRead \/ W_ReactorWrite \/ W_Flag \/ W_Process
        \/ worker' # worker) =>
          UNCHANGED <<timer_list_, heap>>]_vars

WorkersLeaveTimersWitness ==
    \E f \in Fds :
        /\ users_[f].timer_flag = 1
        /\ kernel[f].open
        /\ InList(users_timer_[f].timer)

\* The handlers in their order of priority.
Priority ==
    <<"HandleClientData", "HandleTimer", "HandleSignal", "HandleRead",
      "HandleWrite">>

\* The events a handler is for.
Takes(handler, kind, events) ==
    CASE handler = "HandleClientData" -> kind = "listen_fd_"
      [] handler = "HandleTimer" -> events \cap HangupFlags # {}
      [] handler = "HandleSignal" -> kind = "pipe_fd_" /\ "EPOLLIN" \in events
      [] handler = "HandleRead" -> "EPOLLIN" \in events
      [] handler = "HandleWrite" -> "EPOLLOUT" \in events

\* The first handler, in order of priority, that takes the event.
ByPriority(kind, events) ==
    IF \E i \in 1..Len(Priority) : Takes(Priority[i], kind, events)
    THEN Priority[CHOOSE i \in 1..Len(Priority) :
                    /\ Takes(Priority[i], kind, events)
                    /\ \A j \in 1..(i - 1) : ~Takes(Priority[j], kind, events)]
    ELSE "none"

\* C30: the for loop runs, for an event, the one handler that comes first
\* in the order listening socket, hang-up or error, signal pipe, read,
\* write; and an event on a connection that carries EPOLLRDHUP, EPOLLHUP or
\* EPOLLERR, with or without EPOLLIN or EPOLLOUT, closes the descriptor,
\* takes the connection off the count, removes its timer, and hands nothing
\* to HandleRead or HandleWrite: no request is queued and the loop does not
\* wait for a worker.
EventDispatch ==
    /\ [](\A kind \in FdKinds, events \in SUBSET EventFlags :
             Branch(kind, events) = ByPriority(kind, events))
    /\ [][(/\ event'.fd \in Fds
            /\ event'.events \cap HangupFlags # {}
            /\ EventOn(event'.fd, event'.events))
              => /\ ~kernel'[event'.fd].open
                 /\ m_user_count' = m_user_count - 1
                 /\ users_timer_[event'.fd].timer # NullTimer
                 /\ ~heap'[users_timer_[event'.fd].timer].alive
                 /\ users_timer_'[event'.fd].timer = NullTimer
                 /\ UNCHANGED <<users_, work_queue_, worker, loop>>]_vars

\* The case of C30: the last event was EPOLLIN with EPOLLRDHUP on a
\* connection, and the connection is closed with nothing queued.
EventDispatchWitness ==
    /\ event.fd \in Fds
    /\ {"EPOLLIN", "EPOLLRDHUP"} \subseteq event.events
    /\ loop_touch = {event.fd}
    /\ ~kernel[event.fd].open
    /\ users_timer_[event.fd].timer = NullTimer
    /\ work_queue_ = <<>>
    /\ m_user_count = 0

\* C31: a read_once or write that returns true leaves the connection's
\* timer in the list, with expiry now + 3 * kTimeSlot and the list sorted;
\* one that returns false extends no timer.  In Proactor mode the I/O is
\* part of the event's step; in Reactor mode it is the worker's, and while
\* the worker stands behind an I/O that returned false the timer still has
\* the expiry it had when the event was taken.
IoRearmsTimer ==
    /\ [][\A f \in Fds :
             (/\ actor_model_ # 1
              /\ event'.fd = f
              /\ Branch("connection", event'.events)
                    \in {"HandleRead", "HandleWrite"}
              /\ EventOn(f, event'.events))
                => IF kernel'[f].open
                   THEN /\ heap'[users_timer_[f].timer].alive
                        /\ heap'[users_timer_[f].timer].expire_time_
                              = now + 3 * kTimeSlot
                        /\ InList(users_timer_[f].timer)'
                        /\ TimerListSorted'
                   ELSE \A t \in TimerIds :
                            (heap[t].alive /\ heap'[t].alive)
                               => heap'[t].expire_time_ = heap[t].expire_time_]_vars
    /\ [](\A w \in Workers :
             (/\ actor_model_ = 1
              /\ worker[w].pc = "flag"
              /\ loop.pc = "spin"
              /\ loop.fd = worker[w].fd
              /\ event.fd = worker[w].fd
              /\ loop.timer # NullTimer)
                => heap[loop.timer].expire_time_ = event.expire)

\* C40: once ~ThreadPool has set stop_ and notified, every worker leaves
\* Run, so that every join returns.
PoolJoins == stop_ ~> (\A w \in Workers : worker[w].pc = "exited")

\* C38: m_user_count is the number of descriptors of accepted connections
\* that are open, it is never negative, and a step takes from it exactly
\* the number of descriptors the step closes.
OpenFds == {f \in Fds : kernel[f].open}

ClosedByStep == {f \in Fds : kernel[f].open /\ ~kernel'[f].open}

UserCountExact ==
    /\ [](m_user_count >= 0)
    /\ [](m_user_count = Cardinality(OpenFds))
    /\ [][m_user_count' < m_user_count
            => m_user_count - m_user_count' = Cardinality(ClosedByStep)]_vars

\* C39: every timer in the list is the timer of its slot, the one AddTimer
\* made for the connection the slot now holds: no slot has two timers in
\* the list, and the callback of an expired timer closes the descriptor of
\* the connection the timer was made for.
OneTimerPerConnection ==
    /\ \A f \in Fds : Cardinality(TimersOf(f)) <= 1
    /\ \A t \in TimerIds :
          InList(t) => users_timer_[heap[t].user_data_].timer = t

\* C37: of two workers that register the same name, which no thread had
\* registered before, at most one calls mysql_query for the INSERT and at
\* most one is sent to log.html; once both are through, one of them was
\* sent to registerError.html.
RegisterOnce ==
    \A t, u \in Registrants :
        (t # u /\ reg[t].name = reg[u].name /\ reg[t].name # <<>>)
            => /\ ~(reg[t].query /\ reg[u].query)
               /\ ~(reg[t].url = Lit.log_html /\ reg[u].url = Lit.log_html)
               /\ (reg[t].pc = "done" /\ reg[u].pc = "done")
                     => Lit.registerError_html \in {reg[t].url, reg[u].url}

\* C35: while the pool is not destroyed, no connection is with two
\* threads or with a thread and in the free list, the free list holds no
\* connection twice, free_conn_count_ + cur_conn_count_ is max_conn,
\* free_conn_count_ is the length of the free list and cur_conn_count_ the
\* number of connections threads hold.
Holders(k) == {c \in Callers : caller[c].conn = k}

InFreeList(k) == {i \in 1..Len(conn_list_) : conn_list_[i] = k}

SqlPoolConsistent ==
    ~is_destroyed_ =>
        /\ \A k \in SqlConns :
              Cardinality(Holders(k)) + Cardinality(InFreeList(k)) = 1
        /\ free_conn_count_ + cur_conn_count_ = MaxSqlConn
        /\ free_conn_count_ = Len(conn_list_)
        /\ cur_conn_count_ = Cardinality({c \in Callers : caller[c].conn # 0})

\* Every connection is out, a third thread is blocked in GetConnection.
SqlPoolConsistentWitness ==
    /\ ~is_destroyed_
    /\ conn_list_ = <<>>
    /\ cur_conn_count_ = MaxSqlConn
    /\ \E c, d \in Callers : caller[c].conn = 1 /\ caller[d].conn = 2
    /\ Blocked # {}

\* C36: GetConnection returns a connection only with the pool alive, and
\* then the front of a list that is not empty; a blocked thread leaves its
\* block only to test the predicate again.  Once is_destroyed_ is set, a
\* thread inside GetConnection comes out of it with nullptr, and a call of
\* GetConnection made from then on returns nullptr in its first test,
\* without the mutex and without the wait.
InGet(c) == caller[c].pc \in {"lock", "wait", "block", "blocked", "take"}

DestroyedPoolWakes ==
    /\ [][\A c \in Callers :
            (InGet(c) /\ caller'[c].pc = "out")
                => IF caller'[c].ret = "conn"
                   THEN /\ ~is_destroyed_ /\ conn_list_ # <<>>
                        /\ caller'[c].conn = Head(conn_list_)
                   ELSE /\ is_destroyed_
                        /\ caller'[c].ret = "nullptr" /\ caller'[c].conn = 0]_vars
    /\ [][\A c \in Callers :
            (caller[c].pc = "blocked" /\ caller'[c].pc # "blocked")
                => caller'[c].pc = "lock"]_vars
    /\ [][\A c \in Callers :
            (is_destroyed_ /\ caller[c].pc = "out" /\ caller[c].conn = 0
             /\ caller'[c] # caller[c])
                => caller'[c] = [pc |-> "out", conn |-> 0, ret |-> "nullptr"]]_vars
    /\ \A c \in Callers :
          (is_destroyed_ /\ InGet(c)) ~> (caller[c].pc = "out" /\ caller[c].ret = "nullptr")

\* DestroyPool is through; it found every connection out and a thread in
\* GetConnection, which now stands behind the wait and returns nullptr.
DestroyedPoolWakesWitness ==
    /\ destroyer = "done"
    /\ conn_list_ = <<>>
    /\ cur_conn_count_ = MaxSqlConn
    /\ \E c \in Callers : caller[c].pc = "take"

\* C34: the queue is first in, first out, and an item goes to one worker.
\* A step that changes work_queue_ either puts one item at its back, within
\* max_requests_ and with no worker moved, or takes its front, and then
\* exactly one worker, which was waiting, holds that item and no other
\* worker has moved.  A worker comes to hold an item in no other way.
\* With the threads scheduled every queued item is taken.
Waits(w) == worker[w].pc \in {"idle", "woken"}

TakesFront(w) ==
    /\ Waits(w)
    /\ work_queue_ # <<>>
    /\ work_queue_' = Tail(work_queue_)
    /\ worker'[w].fd = Head(work_queue_)
    /\ worker'[w].pc \in {"io", "process"}
    /\ \A v \in Workers \ {w} : worker'[v] = worker[v]

QueueFifoOneWorker ==
    /\ [][work_queue_' # work_queue_ =>
            \/ /\ \E f \in Fds : work_queue_' = Append(work_queue_, f)
               /\ Len(work_queue_) < MaxRequests
               /\ worker' = worker
            \/ \E w \in Workers : TakesFront(w)]_vars
    /\ [][\A w \in Workers :
            (Waits(w) /\ worker'[w].pc \in {"io", "process"}) => TakesFront(w)]_vars
    /\ \A f \in Fds : Queued(f) ~> Holds(f)

\* Two items were queued, each worker has taken one: the first worker the
\* first item, the second worker the second.
QueueFifoOneWorkerWitness ==
    /\ Cardinality(Workers) = 2
    /\ work_queue_ = <<>>
    /\ \E w, v \in Workers :
          /\ w # v
          /\ worker[w].pc = "process" /\ worker[w].fd = 1
          /\ worker[v].pc = "process" /\ worker[v].fd = 2

\* C33: the alarm goes round: while EventLoop runs, the alarm clock is
\* set, or its SIGALRM byte is in the pipe, or timeout is set, one of the
\* three at a time.  HandleSignal on the pipe only sets the flags: no timer
\* is touched, nothing is closed, no alarm is set.  The tick comes with
\* the end of the batch and nowhere else, clears timeout and sets the alarm
\* to kTimeSlot.  A set alarm leads to its byte in the pipe, the byte to the
\* timeout flag, the flag to the tick and the next alarm, until EventLoop
\* returns or the clock of the model stops.
AlarmGoesRound ==
    /\ [](run # "done" =>
            /\ ExactlyOne(alarm_ > 0, Pending("SIGALRM"), timeout)
            /\ Cardinality({i \in 1..Len(sig_pipe) : sig_pipe[i] = "SIGALRM"}) <= 1)
    /\ [][(sig_pipe # <<>> /\ sig_pipe' = <<>>)
            => /\ timeout' = (timeout \/ Pending("SIGALRM"))
               /\ UNCHANGED <<timerVars, kernel, m_user_count, alarm_, run>>]_vars
    /\ [][(cb_log' # cb_log \/ (timeout /\ ~timeout') \/ alarm_' > alarm_)
            => /\ timeout /\ ~timeout'
               /\ run = "batch" /\ run' = "wait" /\ loop.pc = "wait"
               /\ alarm_' = kTimeSlot
               /\ SetList(ListTick(TheList, now))]_vars
    /\ (alarm_ > 0 /\ now < MaxAlarms * kTimeSlot)
            ~> (Pending("SIGALRM") \/ run = "done")
    /\ (Pending("SIGALRM") /\ ~stop_server) ~> timeout
    /\ timeout ~> (~timeout /\ alarm_ = kTimeSlot)
    /\ (timeout /\ now = kTimeSlot) ~> (now = 2 * kTimeSlot \/ stop_server)

\* Three alarms have run out, each tick has set the next one and the
\* third tick has expired a timer.
AlarmGoesRoundWitness ==
    /\ now = 3 * kTimeSlot
    /\ alarm_ = kTimeSlot
    /\ ~timeout
    /\ sig_pipe = <<>>
    /\ run = "wait"
    /\ cb_log # <<>>

\* C3: every ClientData.timer is null or points to a node that is in the
\* timer list exactly once, never to a node already freed.
ClientTimerInList ==
    \A f \in Fds :
        \/ users_timer_[f].timer = NullTimer
        \/ /\ heap[users_timer_[f].timer].alive
           /\ Occurrences(users_timer_[f].timer) = 1

====
